---- MODULE Spec2Model ----
(***************************************************************************)
(* Model of the FileLogger scanner (internal/scanner): Scanner.Scan, the   *)
(* worker pool, the directory traversal tasks, the result collector and    *)
(* the export-on-completion step, over a static directory tree.            *)
(*                                                                         *)
(* Strings are sequences of one-character strings; a path is the sequence  *)
(* of its components, so filepath.Join appends a component, filepath.Base  *)
(* is the last component and filepath.Dir drops it; paths are relative to  *)
(* the working directory, which is the path ".".  The empty path "" is     *)
(* the empty sequence.  Timestamps (StartTime, LastUpdated, Duration,      *)
(* ModTime) are not modelled.  The context passed to the workers and the   *)
(* traversal tasks is cancelled only when Scan returns, so the ctx.Done    *)
(* branches of worker and scanDirectory are never taken while a task runs  *)
(* and are left out.                                                       *)
(***************************************************************************)
EXTENDS Integers, Sequences, FiniteSets, TLC

VARIABLES
    fs,          \* the filesystem: path -> node
    root,        \* the argument of Scan
    config,      \* Scanner.config (after New resolved the defaults)
    progress,    \* *Scanner.progress
    workChan,    \* Scanner.workChan: buffered items
    workClosed,  \* close(s.workChan) has happened
    resultChan,  \* Scanner.resultChan: buffered items
    resultClosed,\* close(s.resultChan) has happened
    errorChan,   \* Scanner.errorChan: buffered items (never received from)
    dirWg,       \* Scanner.dirWg counter
    wg,          \* the worker WaitGroup of Scan
    scanPc,      \* position of the goroutine that called Scan
    workers,     \* worker goroutines: id -> [pc, fileInfo, err]
    tasks,       \* scanDirectory activations: path -> [pc, idx, root, owner]
    closer,      \* the goroutine of Scan lines 143-146
    collector,   \* collectResults: [pc, files, res]
    result,      \* the ScanResult Scan returns (Returned = FALSE: nil)
    retErr,      \* the error Scan returns
    panicked,    \* a goroutine sent on a closed channel: the process died
    sentLog,     \* history: every value sent on resultChan, in send order
    recvLog,     \* history: every value the collector received, in order
    enqLog,      \* history: every work item sent on workChan, in order
    deqLog,      \* history: every work item a worker received, in order
    spawnLog,    \* history: the path of every scanDirectory activation
    fs0,         \* history: the filesystem as it was when the scan began
    firstScan,   \* history: what an earlier scan of the same tree returned
    classified,  \* the FileInfo the classifier was last applied to
    snapshot,    \* the *ScanProgress GetProgress returned, and the call under way
    apiPc,       \* position of the goroutine StartScan launched
    activeScans, \* api.activeScans: path -> scanner
    scanResults, \* api.scanResults: path -> *ScanResult
    status       \* the response of the last GetStatus, or the request under way

vars == <<fs, root, config, progress, workChan, workClosed, resultChan,
          resultClosed, errorChan, dirWg, wg, scanPc, workers, tasks,
          closer, collector, result, retErr, panicked, sentLog, recvLog, enqLog,
          deqLog, spawnLog, fs0, firstScan, classified, snapshot, apiPc,
          activeScans, scanResults, status>>

\* What the scanner's own steps never touch: the callers' variables.
callerVars == <<fs0, firstScan, classified, snapshot, apiPc, activeScans,
                scanResults, status>>

(***************************************************************************)
(* Bounds of the model.                                                    *)
(***************************************************************************)
MaxWorkers == 2
MaxBuffer == 2
\* The largest MaxFileSizeMB the classifier is checked with.
MaxSizeMB == 2
MaxSnapshots == 2

(***************************************************************************)
(* Program constants.                                                      *)
(***************************************************************************)
DefaultWorkerCount == 4
DefaultBufferSize == 1000

BytesPerMB == 1024 * 1024

\* "blocked_files.json"
ExportFileName ==
    <<"b","l","o","c","k","e","d","_","f","i","l","e","s",".","j","s","o","n">>

(***************************************************************************)
(* Strings and paths.                                                      *)
(***************************************************************************)
LowerAlphabet == <<"a","b","c","d","e","f","g","h","i","j","k","l","m",
                   "n","o","p","q","r","s","t","u","v","w","x","y","z">>
UpperAlphabet == <<"A","B","C","D","E","F","G","H","I","J","K","L","M",
                   "N","O","P","Q","R","S","T","U","V","W","X","Y","Z">>

ToLowerChar(c) ==
    IF \E i \in 1..Len(UpperAlphabet) : UpperAlphabet[i] = c
    THEN LowerAlphabet[CHOOSE i \in 1..Len(UpperAlphabet) : UpperAlphabet[i] = c]
    ELSE c

ToLower(s) == [i \in 1..Len(s) |-> ToLowerChar(s[i])]

EqualFold(s, t) == ToLower(s) = ToLower(t)

\* filepath.Ext: the suffix starting at the last dot of the name, or "".
Ext(name) ==
    IF \E i \in 1..Len(name) : name[i] = "."
    THEN LET k == CHOOSE i \in 1..Len(name) :
                      /\ name[i] = "."
                      /\ \A j \in (i+1)..Len(name) : name[j] # "."
         IN SubSeq(name, k, Len(name))
    ELSE <<>>

TrimPrefixDot(s) == IF Len(s) > 0 /\ s[1] = "." THEN Tail(s) ELSE s

Join(path, name) == Append(path, name)
Base(path) == IF Len(path) = 0 THEN <<".">> ELSE path[Len(path)]

\* The path ".": the working directory.
Cwd == <<<<".">>>>

\* filepath.Dir: the path without its last component; "." for the empty
\* path and for a path of one component.
Dir(path) == IF Len(path) <= 1 THEN Cwd ELSE SubSeq(path, 1, Len(path) - 1)

(***************************************************************************)
(* Errors, and the strings made from them: a string that names a path is   *)
(* the sequence of its fixed parts (msg) together with the path it names.  *)
(***************************************************************************)
NilErr == [op |-> "", path |-> <<>>, cause |-> ""]
PathError(op, path, cause) == [op |-> op, path |-> path, cause |-> cause]

EmptyString == [msg |-> <<>>, path |-> <<>>]

\* err.Error()
ErrorString(e) ==
    IF e = NilErr THEN EmptyString ELSE [msg |-> <<e.op, e.cause>>, path |-> e.path]

\* fmt.Sprintf(prefix + "%v", err)
Sprintf(prefix, e) ==
    [msg |-> <<prefix>> \o ErrorString(e).msg, path |-> ErrorString(e).path]

\* fmt.Errorf(prefix + " %s: %v", path, err)
Errorf(prefix, path, e) == PathError(prefix, path, e.cause)

(***************************************************************************)
(* Byte order of the characters that occur in names (ASCII order), and the *)
(* order of names that os.ReadDir sorts its entries by.                    *)
(***************************************************************************)
ByteOrder == <<".","0","1","2","3","4","5","6","7","8","9">>
             \o UpperAlphabet \o <<"_">> \o LowerAlphabet

CharOrd(c) == CHOOSE i \in 1..Len(ByteOrder) : ByteOrder[i] = c

RECURSIVE StrLess(_, _)
StrLess(s, t) ==
    IF Len(t) = 0 THEN FALSE
    ELSE IF Len(s) = 0 THEN TRUE
    ELSE IF s[1] = t[1] THEN StrLess(Tail(s), Tail(t))
    ELSE CharOrd(s[1]) < CharOrd(t[1])

RECURSIVE SortNames(_)
SortNames(S) ==
    IF S = {} THEN <<>>
    ELSE LET m == CHOOSE x \in S : \A y \in S \ {x} : StrLess(x, y)
         IN <<m>> \o SortNames(S \ {m})

(***************************************************************************)
(* The filesystem provider.  A node is a directory (readable: os.ReadDir   *)
(* succeeds; writable: a file can be created in it) or a file (statOk:     *)
(* os.Stat succeeds, false for a dangling symbolic link; readable: os.Open *)
(* succeeds).  mime is what http.DetectContentType answers for the first   *)
(* 512 bytes, split at "/".  kind is what the directory entry says         *)
(* (DirEntry.IsDir), target what os.Stat says after following links: they  *)
(* differ for a symbolic link to a directory, which is listed as a         *)
(* non-directory entry and stat'ed as a directory.  linkDir says where a   *)
(* dangling link points: the directory of its target is "missing", or it   *)
(* exists and is "unwritable", or it is "writable", so that an open with   *)
(* O_CREATE through the link makes the target; "none" for every other      *)
(* node.  writable of a file: it can be opened for writing.  searchable of *)
(* a directory: the paths through it can be resolved (its x permission);   *)
(* a directory that is readable and not searchable is listed by os.ReadDir *)
(* while lstat, stat and open of each of its entries fail.                 *)
(***************************************************************************)
DirNode(readable, writable) ==
    [kind |-> "dir", target |-> "dir", size |-> 0, statOk |-> TRUE,
     readable |-> readable, writable |-> writable, searchable |-> TRUE,
     linkDir |-> "none", mime |-> <<>>]

\* A directory of mode 0444: it can be listed, and nothing in it can be
\* reached.
ListOnlyDirNode ==
    [DirNode(TRUE, FALSE) EXCEPT !.searchable = FALSE]

FileNode(size, statOk, readable) ==
    [kind |-> "file", target |-> "file", size |-> size, statOk |-> statOk,
     readable |-> readable, writable |-> TRUE, searchable |-> TRUE,
     linkDir |-> "none", mime |-> <<"application", "octet-stream">>]

\* A symbolic link to a directory outside the tree.
DirLinkNode(size) ==
    [kind |-> "file", target |-> "dir", size |-> size, statOk |-> TRUE,
     readable |-> TRUE, writable |-> FALSE, searchable |-> TRUE,
     linkDir |-> "none", mime |-> <<>>]

\* A symbolic link whose target does not exist: os.Stat and os.Open fail.
DanglingLinkNode(linkDir) ==
    [FileNode(0, FALSE, FALSE) EXCEPT !.linkDir = linkDir]

Exists(f, path) == path \in DOMAIN f

\* Path resolution reaches the entry: every directory on the way to it can
\* be searched.
Reachable(f, path) ==
    \A k \in 1..(Len(path) - 1) :
        Exists(f, SubSeq(path, 1, k)) => f[SubSeq(path, 1, k)].searchable

\* os.Stat: the error, or NilErr.
Stat(f, path) ==
    IF ~Reachable(f, path) THEN PathError("stat", path, "permission denied")
    ELSE IF Exists(f, path) /\ f[path].statOk THEN NilErr
    ELSE PathError("stat", path, "no such file or directory")

\* entry.Info() of an entry os.ReadDir listed: lstat of its path.
InfoErr(f, path) ==
    IF Reachable(f, path) THEN NilErr
    ELSE PathError("lstat", path, "permission denied")

IsDir(f, path) == Exists(f, path) /\ f[path].kind = "dir"

\* os.Stat(path) succeeded: its info.IsDir().
StatIsDir(f, path) == Exists(f, path) /\ f[path].target = "dir"

\* os.ReadDir: the names of the entries, sorted by name.
ReadDir(f, path) ==
    SortNames({ q[Len(q)] : q \in { x \in DOMAIN f :
                                      Len(x) = Len(path) + 1 /\ Dir(x) = path } })

ReadDirErr(f, path) ==
    IF IsDir(f, path) /\ f[path].readable /\ Reachable(f, path) THEN NilErr
    ELSE PathError("open", path, "permission denied")

(***************************************************************************)
(* The trees the scans run over.                                           *)
(***************************************************************************)
nRoot == <<"r">>
nMissing == <<"m">>
nLarge == <<"l", ".", "t", "x", "t">>
nSmall == <<"s", ".", "t", "x", "t">>
nSub == <<"s", "u", "b">>
nTest == <<"t", ".", "t", "x", "t">>
nA == <<"a", ".", "t", "x", "t">>
nLink == <<"l", "n", "k">>
nNoRead == <<"n", "o", "r", "e", "a", "d">>
nD1 == <<"d", "1">>
nD2 == <<"d", "2">>

\* Scenario A of TestScanner: small.txt, large.txt (5 MiB), subdir/test.txt.
TreeA ==
    (<<nRoot>> :> DirNode(TRUE, TRUE))
    @@ (<<nRoot, nLarge>> :> FileNode(5 * BytesPerMB, TRUE, TRUE))
    @@ (<<nRoot, nSmall>> :> FileNode(100, TRUE, TRUE))
    @@ (<<nRoot, nSub>> :> DirNode(TRUE, TRUE))
    @@ (<<nRoot, nSub, nTest>> :> FileNode(200, TRUE, TRUE))

\* TestPermissions: a directory without permissions under the root, beside
\* a file that cannot be opened and a dangling link.
TreeB ==
    (<<nRoot>> :> DirNode(TRUE, TRUE))
    @@ (<<nRoot, nA>> :> FileNode(100, TRUE, FALSE))
    @@ (<<nRoot, nLink>> :> DanglingLinkNode("missing"))
    @@ (<<nRoot, nNoRead>> :> DirNode(FALSE, FALSE))

\* A root in which nothing can be created, with two unreadable directories.
TreeC ==
    (<<nRoot>> :> DirNode(TRUE, FALSE))
    @@ (<<nRoot, nD1>> :> DirNode(FALSE, FALSE))
    @@ (<<nRoot, nD2>> :> DirNode(FALSE, FALSE))

\* A root in which nothing can be created, holding a dangling link.
TreeD ==
    (<<nRoot>> :> DirNode(TRUE, FALSE))
    @@ (<<nRoot, nLink>> :> DanglingLinkNode("missing"))

\* A tree an exporting scan has been run on before, once from the root and
\* once from its subdirectory: both hold a blocked_files.json.
TreeE ==
    (<<nRoot>> :> DirNode(TRUE, TRUE))
    @@ (<<nRoot, ExportFileName>> :> FileNode(1, TRUE, TRUE))
    @@ (<<nRoot, nSub>> :> DirNode(TRUE, TRUE))
    @@ (<<nRoot, nSub, ExportFileName>> :> FileNode(1, TRUE, TRUE))

\* A root holding a regular file and a symbolic link to a directory, under
\* the name an exporting scan of the root writes its list to.
TreeF ==
    (<<nRoot>> :> DirNode(TRUE, TRUE))
    @@ (<<nRoot, ExportFileName>> :> DirLinkNode(4096))
    @@ (<<nRoot, nSmall>> :> FileNode(100, TRUE, TRUE))

\* A root holding a file over the size limit, a dangling link and a
\* directory without permissions: every counter and the error log move.
TreeG ==
    (<<nRoot>> :> DirNode(TRUE, TRUE))
    @@ (<<nRoot, nLarge>> :> FileNode(5 * BytesPerMB, TRUE, TRUE))
    @@ (<<nRoot, nLink>> :> DanglingLinkNode("missing"))
    @@ (<<nRoot, nNoRead>> :> DirNode(FALSE, FALSE))

\* A root in which the name an exporting scan writes its list to is a
\* dangling link into a directory that nothing can be created in.
TreeH ==
    (<<nRoot>> :> DirNode(TRUE, TRUE))
    @@ (<<nRoot, ExportFileName>> :> DanglingLinkNode("unwritable"))

\* A root holding a directory of mode 0444 with a file and a directory in
\* it: the directory is listed and entry.Info() fails for both entries.
TreeI ==
    (<<nRoot>> :> DirNode(TRUE, TRUE))
    @@ (<<nRoot, nD1>> :> ListOnlyDirNode)
    @@ (<<nRoot, nD1, nA>> :> FileNode(100, TRUE, TRUE))
    @@ (<<nRoot, nD1, nSub>> :> DirNode(TRUE, TRUE))

Trees == {TreeA, TreeB, TreeC, TreeD, TreeE, TreeF, TreeH, TreeI}

\* The empty path, a path that does not exist, the directory of the trees,
\* and the path of small.txt: a regular file in the tree of Scenario A.
Roots == {<<>>, <<nMissing>>, <<nRoot>>, <<nRoot, nSmall>>}

(***************************************************************************)
(* filepath.Match on names without separators: "*", "?", "\c", "[...]"     *)
(* classes (with "^" and ranges) and literal characters.  A malformed      *)
(* pattern gives matched = false and an error.                             *)
(***************************************************************************)
Drop(s, n) == SubSeq(s, n + 1, Len(s))

\* One class item at the head of p (after "[" and "^"): a character or an
\* escaped character, optionally "-" and a second one.
ClassChar(p) ==
    IF Len(p) = 0 \/ p[1] = "-" \/ p[1] = "]" THEN [ok |-> FALSE, c |-> "", rest |-> <<>>]
    ELSE IF p[1] = "\\"
         THEN IF Len(p) < 2 THEN [ok |-> FALSE, c |-> "", rest |-> <<>>]
              ELSE [ok |-> Len(p) > 2, c |-> p[2], rest |-> Drop(p, 2)]
         ELSE [ok |-> Len(p) > 1, c |-> p[1], rest |-> Drop(p, 1)]

\* The class that starts after "[": whether it is well formed, whether it
\* contains the character ch, and the pattern after its "]".
RECURSIVE ClassItems(_, _, _, _)
ClassItems(p, ch, n, hit) ==
    IF Len(p) > 0 /\ p[1] = "]" /\ n > 0
    THEN [ok |-> TRUE, hit |-> hit, rest |-> Tail(p)]
    ELSE LET lo == ClassChar(p)
         IN IF ~lo.ok THEN [ok |-> FALSE, hit |-> FALSE, rest |-> <<>>]
            ELSE IF Len(lo.rest) > 0 /\ lo.rest[1] = "-"
                 THEN LET hi == ClassChar(Tail(lo.rest))
                      IN IF ~hi.ok THEN [ok |-> FALSE, hit |-> FALSE, rest |-> <<>>]
                         ELSE ClassItems(hi.rest, ch, n + 1,
                                  hit \/ (ch # "" /\ CharOrd(lo.c) <= CharOrd(ch)
                                                  /\ CharOrd(ch) <= CharOrd(hi.c)))
                 ELSE ClassItems(lo.rest, ch, n + 1, hit \/ (ch # "" /\ ch = lo.c))

Class(p, ch) ==
    LET neg == Len(p) > 0 /\ p[1] = "^"
        r == ClassItems(IF neg THEN Tail(p) ELSE p, ch, 0, FALSE)
    IN [ok |-> r.ok, hit |-> (r.hit # neg), rest |-> r.rest]

RECURSIVE WellFormed(_)
WellFormed(p) ==
    IF Len(p) = 0 THEN TRUE
    ELSE IF p[1] = "\\" THEN Len(p) >= 2 /\ WellFormed(Drop(p, 2))
    ELSE IF p[1] = "[" THEN LET c == Class(Tail(p), "")
                            IN c.ok /\ WellFormed(c.rest)
    ELSE WellFormed(Tail(p))

RECURSIVE Glob(_, _)
Glob(p, s) ==
    IF Len(p) = 0 THEN Len(s) = 0
    ELSE IF p[1] = "*" THEN \E k \in 0..Len(s) : Glob(Tail(p), Drop(s, k))
    ELSE IF Len(s) = 0 THEN FALSE
    ELSE IF p[1] = "?" THEN Glob(Tail(p), Tail(s))
    ELSE IF p[1] = "\\" THEN s[1] = p[2] /\ Glob(Drop(p, 2), Tail(s))
    ELSE IF p[1] = "[" THEN LET c == Class(Tail(p), s[1])
                            IN c.hit /\ Glob(c.rest, Tail(s))
    ELSE s[1] = p[1] /\ Glob(Tail(p), Tail(s))

\* Match reporting a match together with the error of a malformed pattern.
Match_errMatches(pattern, name) ==
    IF WellFormed(pattern)
    THEN [matched |-> Glob(pattern, name), err |-> FALSE]
    ELSE [matched |-> TRUE, err |-> TRUE]

Match(pattern, name) ==
    IF WellFormed(pattern)
    THEN [matched |-> Glob(pattern, name), err |-> FALSE]
    ELSE [matched |-> FALSE, err |-> TRUE]

(***************************************************************************)
(* The classifier.                                                         *)
(***************************************************************************)
\* isFileSizeAllowed with a strict comparison.
isFileSizeAllowed_strict(cfg, size) == size < cfg.MaxFileSizeMB * 1024 * 1024

isFileSizeAllowed(cfg, size) == size <= cfg.MaxFileSizeMB * 1024 * 1024

\* IsAllowedType with a case-sensitive comparison.
IsAllowedType_caseSensitive(cfg, file) ==
    \E i \in 1..Len(cfg.AllowedTypes) : file.Extension = cfg.AllowedTypes[i]

IsAllowedType(cfg, file) ==
    \E i \in 1..Len(cfg.AllowedTypes) : EqualFold(file.Extension, cfg.AllowedTypes[i])

\* shouldBlockFile without the pattern rule of lines 367-373.
shouldBlockFile_noPatterns(cfg, file) ==
    IF ~isFileSizeAllowed(cfg, file.Size) THEN TRUE
    ELSE Len(cfg.AllowedTypes) > 0 /\ ~IsAllowedType(cfg, file)

shouldBlockFile(cfg, file) ==
    IF ~isFileSizeAllowed(cfg, file.Size) THEN TRUE
    ELSE IF Len(cfg.AllowedTypes) > 0 /\ ~IsAllowedType(cfg, file) THEN TRUE
    ELSE \E i \in 1..Len(cfg.BlockedPatterns) :
             LET m == Match(cfg.BlockedPatterns[i], file.Name)
             IN ~m.err /\ m.matched

getBlockReason(cfg, file) ==
    IF ~isFileSizeAllowed(cfg, file.Size)
    THEN [msg |-> "File size exceeds limit", pattern |-> <<>>]
    ELSE IF Len(cfg.AllowedTypes) > 0 /\ ~IsAllowedType(cfg, file)
         THEN [msg |-> "File type not allowed", pattern |-> <<>>]
    ELSE IF \E i \in 1..Len(cfg.BlockedPatterns) :
                Match(cfg.BlockedPatterns[i], file.Name).matched
         THEN LET k == CHOOSE i \in 1..Len(cfg.BlockedPatterns) :
                           /\ Match(cfg.BlockedPatterns[i], file.Name).matched
                           /\ \A j \in 1..(i-1) :
                                  ~Match(cfg.BlockedPatterns[j], file.Name).matched
              IN [msg |-> "File matches blocked pattern: ",
                  pattern |-> cfg.BlockedPatterns[k]]
    ELSE [msg |-> "Unknown reason", pattern |-> <<>>]

(***************************************************************************)
(* FileInfo records and the per-file work of a worker.                     *)
(***************************************************************************)
NoReason == [msg |-> "", pattern |-> <<>>]

FileInfo(path) ==
    [Path |-> path, Name |-> Base(path), Size |-> 0, FileType |-> <<>>,
     MimeType |-> <<>>, Extension |-> <<>>, IsDirectory |-> FALSE,
     IsBlocked |-> FALSE, BlockReason |-> NoReason, AccessError |-> EmptyString]

DirInfo(path, name) ==
    [FileInfo(path) EXCEPT !.Name = name, !.IsDirectory = TRUE]

ScanWork(path, isDir) == [Path |-> path, IsDir |-> isDir, Priority |-> 1]

\* ScanWorkResult that loses the error: the result looks like a file record.
ScanWorkResult_dropErr(file, err) == [FileInfo |-> file, Error |-> NilErr]

ScanWorkResult(file, err) == [FileInfo |-> file, Error |-> err]

\* detectFileType: the error, or NilErr.  Reading an empty file gives zero
\* bytes and io.EOF, which is returned as the error.
detectFileTypeErr(f, file) ==
    IF ~Reachable(f, file.Path) \/ ~f[file.Path].readable
    THEN PathError("open", file.Path, "permission denied")
    ELSE IF f[file.Path].target = "dir"
    THEN PathError("read", file.Path, "is a directory")
    ELSE IF f[file.Path].size = 0 THEN PathError("", <<>>, "EOF")
    ELSE NilErr

\* detectFileType: the file as it leaves the function.
detectFileType(f, file) ==
    IF detectFileTypeErr(f, file) # NilErr THEN file
    ELSE LET mime == f[file.Path].mime
         IN [file EXCEPT !.MimeType = mime,
                         !.FileType = IF file.Extension # <<>>
                                      THEN TrimPrefixDot(file.Extension)
                                      ELSE <<mime[1]>>]

\* processWork lines 205-217, after os.Stat succeeded.
Classify(cfg, f, path) ==
    LET f0 == [FileInfo(path) EXCEPT
                   !.Size = f[path].size,
                   !.IsDirectory = StatIsDir(f, path),
                   !.Extension = ToLower(Ext(Base(path)))]
        err == detectFileTypeErr(f, f0)
        f1 == detectFileType(f, f0)
        f2 == IF err # NilErr THEN [f1 EXCEPT !.AccessError = ErrorString(err)]
              ELSE f1
    IN IF shouldBlockFile(cfg, f2)
       THEN [f2 EXCEPT !.IsBlocked = TRUE, !.BlockReason = getBlockReason(cfg, f2)]
       ELSE f2

(***************************************************************************)
(* Construction.                                                           *)
(***************************************************************************)
New(cfg) ==
    [cfg EXCEPT
        !.WorkerCount = IF cfg.WorkerCount <= 0 THEN DefaultWorkerCount
                        ELSE cfg.WorkerCount,
        !.BufferSize = IF cfg.BufferSize <= 0 THEN DefaultBufferSize
                       ELSE cfg.BufferSize]

ZeroProgress ==
    [TotalFiles |-> 0, ScannedFiles |-> 0, TotalSize |-> 0, ScannedSize |-> 0,
     BlockedFiles |-> 0, Errors |-> <<>>, CurrentDirectory |-> <<>>]

ZeroResult == [Files |-> <<>>, Progress |-> ZeroProgress, Success |-> FALSE]

\* The configurations scans are run with: one worker or the most, queues of
\* capacity one or the largest.
Configs ==
    { [MaxFileSizeMB |-> 1, AllowedTypes |-> <<>>, BlockedPatterns |-> <<>>,
       ScanRecursively |-> rec, ExportBlockedToJSON |-> exp,
       WorkerCount |-> w, BufferSize |-> b] :
         rec \in BOOLEAN, exp \in BOOLEAN, w \in {1, MaxWorkers}, b \in {1, MaxBuffer} }

\* collectResults before it runs: files is its local list, res the result
\* it has received and not yet recorded under s.mu.
NewCollector ==
    [pc |-> "notstarted", files |-> <<>>, res |-> ScanWorkResult(FileInfo(<<>>), NilErr)]

NoTasks == [p \in {} |-> 0]

\* The scanner New returns, before Scan is called on it.
NewScanner ==
    /\ progress = ZeroProgress
    /\ workChan = <<>>
    /\ workClosed = FALSE
    /\ resultChan = <<>>
    /\ resultClosed = FALSE
    /\ errorChan = <<>>
    /\ dirWg = 0
    /\ wg = 0
    /\ scanPc = "idle"
    /\ workers = [w \in 1..config.WorkerCount |->
                     [pc |-> "notstarted", file |-> FileInfo(<<>>), err |-> NilErr]]
    /\ tasks = NoTasks
    /\ closer = "notstarted"
    /\ collector = NewCollector
    /\ result = ZeroResult
    /\ retErr = NilErr
    /\ panicked = FALSE
    /\ sentLog = <<>>
    /\ recvLog = <<>>
    /\ enqLog = <<>>
    /\ deqLog = <<>>
    /\ spawnLog = <<>>

\* The aggregate counts of a ScanProgress.
Counts(pr) ==
    [TotalFiles |-> pr.TotalFiles, ScannedFiles |-> pr.ScannedFiles,
     TotalSize |-> pr.TotalSize, ScannedSize |-> pr.ScannedSize,
     BlockedFiles |-> pr.BlockedFiles]

NoScan == [done |-> FALSE, Files |-> {}, Counts |-> Counts(ZeroProgress)]

\* No snapshot was returned yet and no call of GetProgress is under way:
\* pc is the position of the call (0: none, k: before the load of the k-th
\* counter, holding s.mu) and buf the counters it has loaded.  ptrs are the
\* pointers the caller got and still holds, heap the ScanProgress structs
\* that were allocated (the address of a struct is its index) and arrays the
\* backing arrays that were allocated for their error logs.
NoSnapshot ==
    [pc |-> 0, buf |-> ZeroProgress, ptrs |-> <<>>, heap |-> <<>>, arrays |-> <<>>]

NoScans == [p \in {} |-> 0]

\* No GetStatus is under way.  A request under way holds what lines 69-72
\* read from the two maps; id and phase are history.
NoRequest ==
    [id |-> <<>>, phase |-> "", scannerExists |-> FALSE, isNil |-> FALSE,
     resultExists |-> FALSE, Result |-> ZeroResult]

\* No GetStatus has answered yet.  id and phase are history: the path asked
\* for and how far the scan of that path was when the answer was made.
NoStatus ==
    [asked |-> FALSE, code |-> 0, State |-> "", hasProgress |-> FALSE,
     Progress |-> ZeroProgress, hasResult |-> FALSE, Result |-> ZeroResult,
     id |-> <<>>, phase |-> "", pc |-> "idle", req |-> NoRequest]

\* No caller has done anything yet; Scan is called directly, not by the api.
NoCaller ==
    /\ fs0 = fs
    /\ firstScan = NoScan
    /\ classified = FileInfo(<<>>)
    /\ snapshot = NoSnapshot
    /\ apiPc = "direct"
    /\ activeScans = NoScans
    /\ scanResults = NoScans
    /\ status = NoStatus

Init ==
    /\ fs \in Trees
    /\ root \in Roots
    /\ config \in { New(c) : c \in Configs }
    /\ NewScanner
    /\ NoCaller

(***************************************************************************)
(* Scan, lines 112-146: validation, then the collector, the workers, the   *)
(* root work item and the goroutine that closes the work queue.            *)
(***************************************************************************)
\* A panic ends the process: nothing runs after it.
Alive == ~panicked

\* ScanValidate without the os.Stat of lines 117-119.
ScanValidate_noStat(f, r) ==
    IF r = <<>> THEN PathError("", <<>>, "empty path provided")
    ELSE NilErr

ScanValidate(f, r) ==
    IF r = <<>> THEN PathError("", <<>>, "empty path provided")
    ELSE Stat(f, r)

ScanStart ==
    /\ Alive
    /\ scanPc = "idle"
    /\ IF ScanValidate(fs, root) # NilErr
       THEN /\ scanPc' = "failed"
            /\ retErr' = ScanValidate(fs, root)
            /\ UNCHANGED <<collector, workers, wg, dirWg, workChan, enqLog, closer>>
       ELSE /\ collector' = [collector EXCEPT !.pc = "running"]
            /\ workers' = [w \in DOMAIN workers |-> [workers[w] EXCEPT !.pc = "idle"]]
            /\ wg' = wg + config.WorkerCount
            /\ dirWg' = dirWg + 1
            /\ IF Stat(fs, root) # NilErr
               THEN \* startScan failed: Scan returns, the goroutines stay
                    /\ scanPc' = "failed"
                    /\ retErr' = Errorf("scan error", root, Stat(fs, root))
                    /\ UNCHANGED <<workChan, enqLog, closer>>
               ELSE /\ Len(workChan) < config.BufferSize
                    /\ workChan' = Append(workChan, ScanWork(root, StatIsDir(fs, root)))
                    /\ enqLog' = Append(enqLog, ScanWork(root, StatIsDir(fs, root)))
                    /\ closer' = "waiting"
                    /\ scanPc' = "wait_workers"
                    /\ retErr' = retErr
    /\ UNCHANGED <<fs, root, config, progress, workClosed, resultChan, resultClosed,
                   errorChan, tasks, result, panicked, sentLog, recvLog, deqLog>>
    /\ UNCHANGED <<spawnLog, callerVars>>

(***************************************************************************)
(* Sending on the result queue: blocks while the buffer is full, panics    *)
(* when the queue is closed.                                               *)
(***************************************************************************)
CanSendResult == resultClosed \/ Len(resultChan) < config.BufferSize

SendResult(r) ==
    IF resultClosed
    THEN /\ panicked' = TRUE
         /\ UNCHANGED <<resultChan, sentLog>>
    ELSE /\ resultChan' = Append(resultChan, r)
         /\ sentLog' = Append(sentLog, r)
         /\ panicked' = panicked

CanSendWork == workClosed \/ Len(workChan) < config.BufferSize

SendWork(w) ==
    IF workClosed
    THEN /\ panicked' = TRUE
         /\ UNCHANGED <<workChan, enqLog>>
    ELSE /\ workChan' = Append(workChan, w)
         /\ enqLog' = Append(enqLog, w)
         /\ panicked' = panicked

(***************************************************************************)
(* worker and processWork.                                                 *)
(***************************************************************************)
\* scanDirectory(ctx, path, root) begins: line 232 decides the first step.
NewTask(path, rootArg, owner) ==
    [pc |-> IF path = rootArg THEN "sendroot" ELSE "readdir",
     idx |-> 0, entries |-> <<>>, root |-> rootArg, owner |-> owner]

\* worker lines 179-183 and processWork lines 188-217: receive a work item;
\* a directory is enumerated by this worker, a file is stat'ed and classified.
WorkerRecv(w) ==
    /\ Alive
    /\ workers[w].pc = "idle"
    /\ Len(workChan) > 0
    /\ LET work == Head(workChan)
       IN /\ workChan' = Tail(workChan)
          /\ deqLog' = Append(deqLog, work)
          /\ IF work.IsDir
             THEN /\ tasks' = (work.Path :> NewTask(work.Path, work.Path, w)) @@ tasks
                  /\ spawnLog' = Append(spawnLog, work.Path)
                  /\ workers' = [workers EXCEPT ![w].pc = "scandir"]
             ELSE /\ tasks' = tasks
                  /\ spawnLog' = spawnLog
                  /\ IF Stat(fs, work.Path) # NilErr
                     THEN workers' = [workers EXCEPT
                                         ![w].pc = "senderr",
                                         ![w].file = FileInfo(work.Path),
                                         ![w].err = Stat(fs, work.Path)]
                     ELSE workers' = [workers EXCEPT
                                         ![w].pc = "count",
                                         ![w].file = Classify(config, fs, work.Path),
                                         ![w].err = NilErr]
    /\ UNCHANGED <<fs, root, config, progress, workClosed, resultChan, resultClosed,
                   errorChan, dirWg, wg, scanPc, closer, collector, result, retErr,
                   panicked, sentLog, recvLog, enqLog>>
    /\ UNCHANGED callerVars

\* worker lines 180-182: the work queue is closed and drained.
WorkerExit(w) ==
    /\ Alive
    /\ workers[w].pc = "idle"
    /\ Len(workChan) = 0
    /\ workClosed
    /\ workers' = [workers EXCEPT ![w].pc = "exited"]
    /\ wg' = wg - 1
    /\ UNCHANGED <<fs, root, config, progress, workChan, workClosed, resultChan,
                   resultClosed, errorChan, dirWg, scanPc, tasks, closer, collector,
                   result, retErr, panicked, sentLog, recvLog, enqLog, deqLog>>
    /\ UNCHANGED <<spawnLog, callerVars>>

\* processWork line 201: the result that carries only the stat error.
WorkerSendErr(w) ==
    /\ Alive
    /\ workers[w].pc = "senderr"
    /\ CanSendResult
    /\ SendResult(ScanWorkResult(workers[w].file, workers[w].err))
    /\ workers' = [workers EXCEPT ![w].pc = "idle"]
    /\ UNCHANGED <<fs, root, config, progress, workChan, workClosed, resultClosed,
                   errorChan, dirWg, wg, scanPc, tasks, closer, collector, result,
                   retErr, recvLog, enqLog, deqLog>>
    /\ UNCHANGED <<spawnLog, callerVars>>

\* AddScannedFiles as a plain (non-atomic) addition: an addition made while
\* another worker is at the same line is lost.
AddScannedFiles_lostUpdate(pr) ==
    IF Cardinality({ w \in DOMAIN workers : workers[w].pc = "count" }) > 1
    THEN pr
    ELSE [pr EXCEPT !.ScannedFiles = @ + 1]

\* processWork line 219: atomic.AddInt64(&s.progress.ScannedFiles, 1).
AddScannedFiles(pr) == [pr EXCEPT !.ScannedFiles = @ + 1]

\* processWork line 220: atomic.AddInt64(&s.progress.ScannedSize, size).
AddScannedSize(pr, file) == [pr EXCEPT !.ScannedSize = @ + file.Size]

\* processWork line 222: atomic.AddInt64(&s.progress.BlockedFiles, 1).
AddBlockedFiles(pr) == [pr EXCEPT !.BlockedFiles = @ + 1]

\* processWork line 219.  The worker holds no lock at lines 219-222, so
\* each addition is a step of its own.
WorkerAddScannedFiles(w) ==
    /\ Alive
    /\ workers[w].pc = "count"
    /\ progress' = AddScannedFiles(progress)
    /\ workers' = [workers EXCEPT ![w].pc = "countsize"]
    /\ UNCHANGED <<fs, root, config, workChan, workClosed, resultChan, resultClosed,
                   errorChan, dirWg, wg, scanPc, tasks, closer, collector, result,
                   retErr, panicked, sentLog, recvLog, enqLog, deqLog>>
    /\ UNCHANGED <<spawnLog, callerVars>>

\* processWork lines 220-221: the size is added; a file that is not
\* blocked goes on to line 225.
WorkerAddScannedSize(w) ==
    /\ Alive
    /\ workers[w].pc = "countsize"
    /\ progress' = AddScannedSize(progress, workers[w].file)
    /\ workers' = [workers EXCEPT
                      ![w].pc = IF workers[w].file.IsBlocked THEN "countblocked"
                                ELSE "send"]
    /\ UNCHANGED <<fs, root, config, workChan, workClosed, resultChan, resultClosed,
                   errorChan, dirWg, wg, scanPc, tasks, closer, collector, result,
                   retErr, panicked, sentLog, recvLog, enqLog, deqLog>>
    /\ UNCHANGED <<spawnLog, callerVars>>

\* processWork line 222.
WorkerAddBlockedFiles(w) ==
    /\ Alive
    /\ workers[w].pc = "countblocked"
    /\ progress' = AddBlockedFiles(progress)
    /\ workers' = [workers EXCEPT ![w].pc = "send"]
    /\ UNCHANGED <<fs, root, config, workChan, workClosed, resultChan, resultClosed,
                   errorChan, dirWg, wg, scanPc, tasks, closer, collector, result,
                   retErr, panicked, sentLog, recvLog, enqLog, deqLog>>
    /\ UNCHANGED <<spawnLog, callerVars>>

\* processWork line 225.
WorkerSend(w) ==
    /\ Alive
    /\ workers[w].pc = "send"
    /\ CanSendResult
    /\ SendResult(ScanWorkResult(workers[w].file, NilErr))
    /\ workers' = [workers EXCEPT ![w].pc = "idle"]
    /\ UNCHANGED <<fs, root, config, progress, workChan, workClosed, resultClosed,
                   errorChan, dirWg, wg, scanPc, tasks, closer, collector, result,
                   retErr, recvLog, enqLog, deqLog>>
    /\ UNCHANGED <<spawnLog, callerVars>>

(***************************************************************************)
(* scanDirectory.  A task is one activation; the one for the root work     *)
(* item runs inside the worker that received it (owner), every other one   *)
(* is a goroutine of its own (owner 0).                                    *)
(***************************************************************************)
Running(p) == p \in DOMAIN tasks /\ tasks[p].pc # "done"

\* EntryPath that always takes the first entry of the listing.
EntryPath_first(p) == Join(p, tasks[p].entries[1])

EntryPath(p) == Join(p, tasks[p].entries[tasks[p].idx])

HasEntry(p) == tasks[p].idx <= Len(tasks[p].entries)

\* scanDirectory returns: the deferred dirWg.Done(), and the worker that ran
\* it goes back to its loop.
SdFinish(p) ==
    /\ dirWg' = dirWg - 1
    /\ tasks' = [tasks EXCEPT ![p].pc = "done"]
    /\ workers' = IF tasks[p].owner = 0 THEN workers
                  ELSE [workers EXCEPT ![tasks[p].owner].pc = "idle"]

\* line 238: the record of the root directory.
SdSendRoot(p) ==
    /\ Alive
    /\ Running(p)
    /\ tasks[p].pc = "sendroot"
    /\ CanSendResult
    /\ SendResult(ScanWorkResult(DirInfo(p, Base(p)), NilErr))
    /\ tasks' = [tasks EXCEPT ![p].pc = "incroot"]
    /\ UNCHANGED <<fs, root, config, progress, workChan, workClosed, resultClosed,
                   errorChan, dirWg, wg, scanPc, workers, closer, collector, result,
                   retErr, recvLog, enqLog, deqLog>>
    /\ UNCHANGED <<spawnLog, callerVars>>

\* line 239.
SdIncRoot(p) ==
    /\ Alive
    /\ Running(p)
    /\ tasks[p].pc = "incroot"
    /\ progress' = [progress EXCEPT !.TotalFiles = @ + 1]
    /\ tasks' = [tasks EXCEPT ![p].pc = "readdir"]
    /\ UNCHANGED <<fs, root, config, workChan, workClosed, resultChan, resultClosed,
                   errorChan, dirWg, wg, scanPc, workers, closer, collector, result,
                   retErr, panicked, sentLog, recvLog, enqLog, deqLog>>
    /\ UNCHANGED <<spawnLog, callerVars>>

\* lines 242-246: os.ReadDir; a failure is sent on errorChan (which blocks
\* while its buffer is full) and the task returns.
SdReadDir(p) ==
    /\ Alive
    /\ Running(p)
    /\ tasks[p].pc = "readdir"
    /\ IF ReadDirErr(fs, p) # NilErr
       THEN /\ Len(errorChan) < config.BufferSize
            /\ errorChan' = Append(errorChan,
                                Errorf("error reading directory", p, ReadDirErr(fs, p)))
            /\ SdFinish(p)
       ELSE /\ tasks' = [tasks EXCEPT ![p].pc = "loop", ![p].idx = 1,
                                      ![p].entries = ReadDir(fs, p)]
            /\ UNCHANGED <<errorChan, dirWg, workers>>
    /\ UNCHANGED <<fs, root, config, progress, workChan, workClosed, resultChan,
                   resultClosed, wg, scanPc, closer, collector, result, retErr,
                   panicked, sentLog, recvLog, enqLog, deqLog>>
    /\ UNCHANGED <<spawnLog, callerVars>>

\* line 248 with no entry left: the function returns.
SdReturn(p) ==
    /\ Alive
    /\ Running(p)
    /\ tasks[p].pc = "loop"
    /\ ~HasEntry(p)
    /\ SdFinish(p)
    /\ UNCHANGED <<fs, root, config, progress, workChan, workClosed, resultChan,
                   resultClosed, errorChan, wg, scanPc, closer, collector, result,
                   retErr, panicked, sentLog, recvLog, enqLog, deqLog>>
    /\ UNCHANGED <<spawnLog, callerVars>>

\* lines 253-258: entry.Info() fails; the failure is sent on errorChan (which
\* blocks while its buffer is full) and the entry is passed over.
SdInfoErr(p) ==
    /\ Alive
    /\ Running(p)
    /\ tasks[p].pc = "loop"
    /\ HasEntry(p)
    /\ InfoErr(fs, EntryPath(p)) # NilErr
    /\ Len(errorChan) < config.BufferSize
    /\ errorChan' = Append(errorChan,
                        Errorf("error getting info for", EntryPath(p),
                               InfoErr(fs, EntryPath(p))))
    /\ tasks' = [tasks EXCEPT ![p].idx = @ + 1]
    /\ UNCHANGED <<fs, root, config, progress, workChan, workClosed, resultChan,
                   resultClosed, dirWg, wg, scanPc, workers, closer, collector,
                   result, retErr, panicked, sentLog, recvLog, enqLog, deqLog>>
    /\ UNCHANGED <<spawnLog, callerVars>>

\* SdFile without the test of line 285: the export file is queued too.
SdFile_noSkip(p) ==
    /\ Alive
    /\ Running(p)
    /\ tasks[p].pc = "loop"
    /\ HasEntry(p)
    /\ InfoErr(fs, EntryPath(p)) = NilErr
    /\ ~IsDir(fs, EntryPath(p))
    /\ CanSendWork
    /\ SendWork(ScanWork(EntryPath(p), FALSE))
    /\ tasks' = [tasks EXCEPT ![p].idx = @ + 1]
    /\ UNCHANGED <<fs, root, config, progress, workClosed, resultChan, resultClosed,
                   errorChan, dirWg, wg, scanPc, workers, closer, collector, result,
                   retErr, sentLog, recvLog, deqLog>>
    /\ UNCHANGED <<spawnLog, callerVars>>

\* lines 253, 260 and 284-294: an entry that is no directory is queued for
\* the workers,
\* unless it is the export file of an exporting scan.
SdFile(p) ==
    /\ Alive
    /\ Running(p)
    /\ tasks[p].pc = "loop"
    /\ HasEntry(p)
    /\ InfoErr(fs, EntryPath(p)) = NilErr
    /\ ~IsDir(fs, EntryPath(p))
    /\ IF config.ExportBlockedToJSON /\ Base(EntryPath(p)) = ExportFileName
       THEN UNCHANGED <<workChan, enqLog, panicked>>
       ELSE /\ CanSendWork
            /\ SendWork(ScanWork(EntryPath(p), FALSE))
    /\ tasks' = [tasks EXCEPT ![p].idx = @ + 1]
    /\ UNCHANGED <<fs, root, config, progress, workClosed, resultChan, resultClosed,
                   errorChan, dirWg, wg, scanPc, workers, closer, collector, result,
                   retErr, sentLog, recvLog, deqLog>>
    /\ UNCHANGED <<spawnLog, callerVars>>

\* lines 253, 260-263 and 272-274: a directory entry; in recursive mode the task
\* is registered before its record is sent.
SdDir(p) ==
    /\ Alive
    /\ Running(p)
    /\ tasks[p].pc = "loop"
    /\ HasEntry(p)
    /\ InfoErr(fs, EntryPath(p)) = NilErr
    /\ IsDir(fs, EntryPath(p))
    /\ IF config.ScanRecursively
       THEN /\ dirWg' = dirWg + 1
            /\ tasks' = [tasks EXCEPT ![p].pc = "senddir"]
       ELSE /\ dirWg' = dirWg
            /\ IF p = tasks[p].root
               THEN tasks' = [tasks EXCEPT ![p].pc = "senddir"]
               ELSE tasks' = [tasks EXCEPT ![p].idx = @ + 1]
    /\ UNCHANGED <<fs, root, config, progress, workChan, workClosed, resultChan,
                   resultClosed, errorChan, wg, scanPc, workers, closer, collector,
                   result, retErr, panicked, sentLog, recvLog, enqLog, deqLog>>
    /\ UNCHANGED <<spawnLog, callerVars>>

\* lines 264-269 and 275-280: the record of a directory entry.
SdSendDir(p) ==
    /\ Alive
    /\ Running(p)
    /\ tasks[p].pc = "senddir"
    /\ CanSendResult
    /\ SendResult(ScanWorkResult(DirInfo(EntryPath(p), Base(EntryPath(p))), NilErr))
    /\ tasks' = [tasks EXCEPT ![p].pc = "incdir"]
    /\ UNCHANGED <<fs, root, config, progress, workChan, workClosed, resultClosed,
                   errorChan, dirWg, wg, scanPc, workers, closer, collector, result,
                   retErr, recvLog, enqLog, deqLog>>
    /\ UNCHANGED <<spawnLog, callerVars>>

\* SdIncDir starting the goroutine in either mode.
SdIncDir_alwaysSpawn(p) ==
    /\ Alive
    /\ Running(p)
    /\ tasks[p].pc = "incdir"
    /\ progress' = [progress EXCEPT !.TotalFiles = @ + 1]
    /\ tasks' = (EntryPath(p) :> NewTask(EntryPath(p), tasks[p].root, 0))
                 @@ [tasks EXCEPT ![p].pc = "loop", ![p].idx = @ + 1]
    /\ spawnLog' = Append(spawnLog, EntryPath(p))
    /\ UNCHANGED <<fs, root, config, workChan, workClosed, resultChan, resultClosed,
                   errorChan, dirWg, wg, scanPc, workers, closer, collector, result,
                   retErr, panicked, sentLog, recvLog, enqLog, deqLog>>
    /\ UNCHANGED callerVars

\* lines 270-271 and 281: count the directory; in recursive mode start the
\* goroutine that enumerates it.
SdIncDir(p) ==
    /\ Alive
    /\ Running(p)
    /\ tasks[p].pc = "incdir"
    /\ progress' = [progress EXCEPT !.TotalFiles = @ + 1]
    /\ tasks' = IF config.ScanRecursively
                THEN (EntryPath(p) :> NewTask(EntryPath(p), tasks[p].root, 0))
                     @@ [tasks EXCEPT ![p].pc = "loop", ![p].idx = @ + 1]
                ELSE [tasks EXCEPT ![p].pc = "loop", ![p].idx = @ + 1]
    /\ spawnLog' = IF config.ScanRecursively THEN Append(spawnLog, EntryPath(p))
                   ELSE spawnLog
    /\ UNCHANGED <<fs, root, config, workChan, workClosed, resultChan, resultClosed,
                   errorChan, dirWg, wg, scanPc, workers, closer, collector, result,
                   retErr, panicked, sentLog, recvLog, enqLog, deqLog>>
    /\ UNCHANGED callerVars

(***************************************************************************)
(* Scan lines 143-146: close the work queue once no traversal is pending.  *)
(***************************************************************************)
\* CloseWorkChan without the dirWg.Wait() of line 144.
CloseWorkChan_early ==
    /\ Alive
    /\ closer = "waiting"
    /\ workClosed' = TRUE
    /\ closer' = "done"
    /\ UNCHANGED <<fs, root, config, progress, workChan, resultChan, resultClosed,
                   errorChan, dirWg, wg, scanPc, workers, tasks, collector, result,
                   retErr, panicked, sentLog, recvLog, enqLog, deqLog>>
    /\ UNCHANGED <<spawnLog, callerVars>>

CloseWorkChan ==
    /\ Alive
    /\ closer = "waiting"
    /\ dirWg = 0
    /\ workClosed' = TRUE
    /\ closer' = "done"
    /\ UNCHANGED <<fs, root, config, progress, workChan, resultChan, resultClosed,
                   errorChan, dirWg, wg, scanPc, workers, tasks, collector, result,
                   retErr, panicked, sentLog, recvLog, enqLog, deqLog>>
    /\ UNCHANGED <<spawnLog, callerVars>>

(***************************************************************************)
(* collectResults.                                                         *)
(***************************************************************************)
\* CollectFiles with the list overwritten instead of appended to.
CollectFiles_overwrite(files, res) ==
    IF res.Error # NilErr THEN files ELSE <<res.FileInfo>>

\* lines 304-310: the list of files after one result.
CollectFiles(files, res) ==
    IF res.Error # NilErr THEN files ELSE Append(files, res.FileInfo)

\* CollectProgress emptying the error log when a file record arrives.
CollectProgress_dropErrors(pr, res) ==
    IF res.Error # NilErr
    THEN [pr EXCEPT !.Errors = Append(@, ErrorString(res.Error))]
    ELSE [pr EXCEPT !.CurrentDirectory = Dir(res.FileInfo.Path), !.Errors = <<>>]

\* lines 304-314: the progress after one result.
CollectProgress(pr, res) ==
    IF res.Error # NilErr
    THEN [pr EXCEPT !.Errors = Append(@, ErrorString(res.Error))]
    ELSE [pr EXCEPT !.CurrentDirectory = Dir(res.FileInfo.Path)]

\* s.mu is free: no call of GetProgress holds it.  (The collector holds it
\* only inside CollectorRecord, which is one step.)
MuFree == snapshot.pc = 0

\* lines 303, 304 and 310: a result is received and, when it carries no
\* error, appended to the collector's local list; s.mu is not held yet.
CollectorRecv ==
    /\ Alive
    /\ collector.pc = "running"
    /\ Len(resultChan) > 0
    /\ LET res == Head(resultChan)
       IN /\ resultChan' = Tail(resultChan)
          /\ recvLog' = Append(recvLog, res)
          /\ collector' = [collector EXCEPT !.pc = "lock", !.res = res,
                                            !.files = CollectFiles(@, res)]
    /\ UNCHANGED <<fs, root, config, progress, workChan, workClosed, resultClosed,
                   errorChan, dirWg, wg, scanPc, workers, tasks, closer, result,
                   retErr, panicked, sentLog, enqLog, deqLog>>
    /\ UNCHANGED <<spawnLog, callerVars>>

\* lines 305-307 or 311-314: under s.mu the error is appended to the error
\* log, or the current directory is set.
CollectorRecord ==
    /\ Alive
    /\ collector.pc = "lock"
    /\ MuFree
    /\ progress' = CollectProgress(progress, collector.res)
    /\ collector' = [collector EXCEPT !.pc = "running"]
    /\ UNCHANGED <<fs, root, config, workChan, workClosed, resultChan, resultClosed,
                   errorChan, dirWg, wg, scanPc, workers, tasks, closer, result,
                   retErr, panicked, sentLog, recvLog, enqLog, deqLog>>
    /\ UNCHANGED <<spawnLog, callerVars>>

\* lines 300 and 316: the result queue is closed and drained.
CollectorExit ==
    /\ Alive
    /\ collector.pc = "running"
    /\ Len(resultChan) = 0
    /\ resultClosed
    /\ result' = [result EXCEPT !.Files = collector.files]
    /\ collector' = [collector EXCEPT !.pc = "done"]
    /\ UNCHANGED <<fs, root, config, progress, workChan, workClosed, resultChan,
                   resultClosed, errorChan, dirWg, wg, scanPc, workers, tasks,
                   closer, retErr, panicked, sentLog, recvLog, enqLog, deqLog>>
    /\ UNCHANGED <<spawnLog, callerVars>>

(***************************************************************************)
(* Scan lines 148-169.                                                     *)
(***************************************************************************)
\* ScanCloseResults without the wg.Wait() of line 149.
ScanCloseResults_noWait ==
    /\ Alive
    /\ scanPc = "wait_workers"
    /\ resultClosed' = TRUE
    /\ scanPc' = "wait_collector"
    /\ UNCHANGED <<fs, root, config, progress, workChan, workClosed, resultChan,
                   errorChan, dirWg, wg, workers, tasks, closer, collector, result,
                   retErr, panicked, sentLog, recvLog, enqLog, deqLog>>
    /\ UNCHANGED <<spawnLog, callerVars>>

\* lines 149-152: all workers are done; close the result queue.
ScanCloseResults ==
    /\ Alive
    /\ scanPc = "wait_workers"
    /\ wg = 0
    /\ resultClosed' = TRUE
    /\ scanPc' = "wait_collector"
    /\ UNCHANGED <<fs, root, config, progress, workChan, workClosed, resultChan,
                   errorChan, dirWg, wg, workers, tasks, closer, collector, result,
                   retErr, panicked, sentLog, recvLog, enqLog, deqLog>>
    /\ UNCHANGED <<spawnLog, callerVars>>

\* A file or directory can be created in directory d (the working directory
\* is taken to be writable).
Writable(f, d) ==
    d = Cwd \/ (Exists(f, d) /\ f[d].writable /\ f[d].searchable /\ Reachable(f, d))

\* os.MkdirAll(d, 0755): the error, or NilErr.  A directory that exists is
\* left alone; a missing one is made after its parent, in which it must be
\* possible to create it (a directory made on the way is writable).
RECURSIVE MkdirAll(_, _)
MkdirAll(f, d) ==
    IF d = Cwd \/ (Stat(f, d) = NilErr /\ StatIsDir(f, d)) THEN NilErr
    ELSE IF Exists(f, d)
    THEN PathError("failed to create output directory", d, "mkdir")
    ELSE IF MkdirAll(f, Dir(d)) # NilErr THEN MkdirAll(f, Dir(d))
    ELSE IF Exists(f, Dir(d)) /\ ~Writable(f, Dir(d))
    THEN PathError("failed to create output directory", d, "mkdir")
    ELSE NilErr

\* The directories a successful os.MkdirAll(d, 0755) makes.
MadeDirs(f, d) ==
    IF d = Cwd THEN {} ELSE { SubSeq(d, 1, k) : k \in { i \in 1..Len(d) : ~Exists(f, SubSeq(d, 1, i)) } }

\* os.Create: open with O_RDWR|O_CREATE|O_TRUNC, which follows symbolic
\* links.  It fails on a directory and on a link to one (EISDIR), on an
\* existing file that cannot be opened for reading and writing (EACCES), on
\* a dangling link whose target cannot be made (ENOENT when the directory of
\* the target is missing, EACCES when nothing can be created in it), and on
\* a new name in a directory that nothing can be created in (EACCES).
Create(f, d, made) ==
    IF ~Reachable(f, d) THEN PathError("open", d, "permission denied")
    ELSE IF Exists(f, d)
    THEN IF f[d].target = "dir" THEN PathError("open", d, "is a directory")
         ELSE IF f[d].statOk
         THEN IF f[d].readable /\ f[d].writable THEN NilErr
              ELSE PathError("open", d, "permission denied")
         ELSE IF f[d].linkDir = "writable" THEN NilErr
         ELSE IF f[d].linkDir = "unwritable"
         THEN PathError("open", d, "permission denied")
         ELSE PathError("open", d, "no such file or directory")
    ELSE IF made = {} /\ ~Writable(f, Dir(d))
         THEN PathError("open", d, "permission denied")
         ELSE NilErr

\* jsonexport.ExportBlockedFiles: the error, or NilErr.  The parent directory
\* is made if it is missing (line 47) and the file must be creatable in it
\* (os.Create, line 52).
ExportBlockedFiles(f, res, outputPath) ==
    IF MkdirAll(f, Dir(outputPath)) # NilErr
    THEN MkdirAll(f, Dir(outputPath))
    ELSE IF Create(f, outputPath, MadeDirs(f, Dir(outputPath))) # NilErr
    THEN Errorf("failed to create output file", outputPath,
                Create(f, outputPath, MadeDirs(f, Dir(outputPath))))
    ELSE NilErr

\* The filesystem after a successful export: the missing directories of the
\* output path and the output file exist.  A link that the file was created
\* through stays a link and now leads to a regular file, which is listed and
\* stat'ed like one.
Exported(f, outputPath) ==
    [x \in DOMAIN f \cup MadeDirs(f, Dir(outputPath)) \cup {outputPath} |->
        IF x = outputPath THEN FileNode(1, TRUE, TRUE)
        ELSE IF x \in DOMAIN f THEN f[x]
        ELSE DirNode(TRUE, TRUE)]

\* Freeze without the copy of line 156.
Freeze_noCopy(res, pr) ==
    [res EXCEPT !.Success = (Len(pr.Errors) = 0)]

\* lines 155-157: the result as frozen before the export.
Freeze(res, pr) ==
    [res EXCEPT !.Progress = pr, !.Success = (Len(pr.Errors) = 0)]

\* AfterExport with the export error replacing the error log.
AfterExport_replace(cfg, f, r, res) ==
    IF cfg.ExportBlockedToJSON
       /\ ExportBlockedFiles(f, res, Join(r, ExportFileName)) # NilErr
    THEN [res EXCEPT !.Progress.Errors =
             <<Sprintf("Failed to export blocked files: ",
                       ExportBlockedFiles(f, res, Join(r, ExportFileName)))>>]
    ELSE res

\* lines 160-167: the result after the export step.
AfterExport(cfg, f, r, res) ==
    IF cfg.ExportBlockedToJSON
       /\ ExportBlockedFiles(f, res, Join(r, ExportFileName)) # NilErr
    THEN [res EXCEPT !.Progress.Errors =
             Append(@, Sprintf("Failed to export blocked files: ",
                               ExportBlockedFiles(f, res, Join(r, ExportFileName))))]
    ELSE res

\* lines 153-169: the collector is done; freeze, export, return.
ScanFinish ==
    /\ Alive
    /\ scanPc = "wait_collector"
    /\ collector.pc = "done"
    /\ result' = AfterExport(config, fs, root, Freeze(result, progress))
    /\ fs' = IF config.ExportBlockedToJSON
                /\ ExportBlockedFiles(fs, Freeze(result, progress),
                                      Join(root, ExportFileName)) = NilErr
             THEN Exported(fs, Join(root, ExportFileName))
             ELSE fs
    /\ retErr' = NilErr
    /\ scanPc' = "returned"
    /\ UNCHANGED <<root, config, progress, workChan, workClosed, resultChan,
                   resultClosed, errorChan, dirWg, wg, workers, tasks, closer,
                   collector, panicked, sentLog, recvLog, enqLog, deqLog>>
    /\ UNCHANGED <<spawnLog, callerVars>>

(***************************************************************************)
(* The system.                                                             *)
(***************************************************************************)
Next ==
    \/ ScanStart
    \/ \E w \in DOMAIN workers : WorkerRecv(w)
    \/ \E w \in DOMAIN workers : WorkerExit(w)
    \/ \E w \in DOMAIN workers : WorkerSendErr(w)
    \/ \E w \in DOMAIN workers : WorkerAddScannedFiles(w)
    \/ \E w \in DOMAIN workers : WorkerAddScannedSize(w)
    \/ \E w \in DOMAIN workers : WorkerAddBlockedFiles(w)
    \/ \E w \in DOMAIN workers : WorkerSend(w)
    \/ \E p \in DOMAIN tasks : SdSendRoot(p)
    \/ \E p \in DOMAIN tasks : SdIncRoot(p)
    \/ \E p \in DOMAIN tasks : SdReadDir(p)
    \/ \E p \in DOMAIN tasks : SdReturn(p)
    \/ \E p \in DOMAIN tasks : SdInfoErr(p)
    \/ \E p \in DOMAIN tasks : SdFile(p)
    \/ \E p \in DOMAIN tasks : SdDir(p)
    \/ \E p \in DOMAIN tasks : SdSendDir(p)
    \/ \E p \in DOMAIN tasks : SdIncDir(p)
    \/ CloseWorkChan
    \/ CollectorRecv
    \/ CollectorRecord
    \/ CollectorExit
    \/ ScanCloseResults
    \/ ScanFinish

Spec == Init /\ [][Next]_vars

\* The scans whose termination is examined: without the export step, of
\* the trees with files and a subdirectory, with two unreadable directories,
\* with a dangling link and with a directory whose entries cannot be
\* lstat'ed.
FairInit == Init /\ fs \in {TreeA, TreeC, TreeD, TreeI} /\ ~config.ExportBlockedToJSON

\* Some goroutine that can run does run.
FairSpec == FairInit /\ [][Next]_vars /\ WF_vars(Next)

(***************************************************************************)
(* The classifier on its own: one regular file of a chosen name and size   *)
(* in the root, a chosen size limit, allow-list and pattern list, and the  *)
(* per-file work of processWork applied to that file.                      *)
(***************************************************************************)
ClassNames ==
    { <<"a", ".", "t">>, <<"b", ".", "T">>, <<"c", ".", "m">>, <<".", "h">>, <<"n">> }

ClassSizes ==
    { 0, 100 } \cup
    { m * BytesPerMB + d : m \in 1..MaxSizeMB, d \in {-1, 0, 1} }

ClassAllowLists ==
    { <<>>,
      << <<".", "t">> >>,
      << <<".", "M">>, <<".", "T">> >>,
      << <<"t">> >> }

ClassPatterns ==
    { <<>>,
      << <<"*", ".", "m">> >>,
      << <<"*", ".", "m">>, <<".", "*">> >>,
      << <<"[">> >>,
      << <<"[">>, <<"*", ".", "t">> >>,
      << <<"[", "a", "-", "b", "]", "*">>, <<"*", ".", "t">> >> }

ClassConfigs ==
    { [MaxFileSizeMB |-> mb, AllowedTypes |-> al, BlockedPatterns |-> bp,
       ScanRecursively |-> TRUE, ExportBlockedToJSON |-> FALSE,
       WorkerCount |-> 1, BufferSize |-> 1] :
         mb \in 0..MaxSizeMB, al \in ClassAllowLists, bp \in ClassPatterns }

ClassTree(name, size) ==
    (<<nRoot>> :> DirNode(TRUE, TRUE)) @@
    (<<nRoot, name>> :> FileNode(size, TRUE, TRUE))

\* The one regular file of a ClassTree.
ClassFile(f) == CHOOSE x \in DOMAIN f : f[x].kind # "dir"

ClassInit ==
    /\ fs \in { ClassTree(n, sz) : n \in ClassNames, sz \in ClassSizes }
    /\ root = <<nRoot>>
    /\ config \in { New(c) : c \in ClassConfigs }
    /\ NewScanner
    /\ NoCaller

\* processWork for the file, called on a scanner that runs no goroutine:
\* stat, type detection, decision and reason (lines 194-217), the additions
\* to the counters (219-223) and the record sent on the result queue (225);
\* when stat fails, the result with the error only (199-203).  classified is
\* the record that was sent.
ClassifyFile ==
    /\ classified.Path = <<>>
    /\ CanSendResult
    /\ LET path == ClassFile(fs)
           file == Classify(config, fs, path)
           counted == AddScannedSize(AddScannedFiles(progress), file)
       IN IF Stat(fs, path) # NilErr
          THEN /\ classified' = FileInfo(path)
               /\ progress' = progress
               /\ SendResult(ScanWorkResult(FileInfo(path), Stat(fs, path)))
          ELSE /\ classified' = file
               /\ progress' = IF file.IsBlocked THEN AddBlockedFiles(counted)
                               ELSE counted
               /\ SendResult(ScanWorkResult(file, NilErr))
    /\ UNCHANGED <<fs, root, config, workChan, workClosed, resultClosed,
                   errorChan, dirWg, wg, scanPc, workers, tasks, closer,
                   collector, result, retErr, recvLog, enqLog, deqLog, spawnLog,
                   fs0, firstScan, snapshot, apiPc, activeScans, scanResults,
                   status>>

ClassNext == ClassifyFile

ClassSpec == ClassInit /\ [][ClassNext]_vars

(***************************************************************************)
(* GetProgress, called by another goroutine at any moment.  The call       *)
(* returns a pointer.  Memory is explicit: the scanner's own ScanProgress  *)
(* is at ScannerAddr and its error log in the array ScannerArr; a struct   *)
(* a call allocates gets the next address of the heap and a backing array  *)
(* a call makes the next index of arrays.  The Errors field of a struct on *)
(* the heap is a slice header: the array it points into and its length.    *)
(* The call holds s.mu from line 428 until it returns.  The collector      *)
(* writes Errors and CurrentDirectory under s.mu, so the call reads them   *)
(* as they stand; the counters are written by workers and traversal tasks  *)
(* with atomic additions and without s.mu, so each of the loads of lines   *)
(* 433-437 is a step of its own and sees the counter as it is at that      *)
(* moment.                                                                 *)
(***************************************************************************)
ScannerAddr == 0
ScannerArr == -1
NilArr == 0

NoMem == [heap |-> <<>>, arrays |-> <<>>]

\* The memory the pointers of a caller lead into.
Mem(snap) == [heap |-> snap.heap, arrays |-> snap.arrays]

\* The elements a slice header leads to.  The scanner only appends to its
\* error log, and an append writes behind the length of every older header
\* or into a new array, so a header into the scanner's array of length n
\* keeps reading the first n messages.
Elems(hdr, mem, pr) ==
    IF hdr.arr = NilArr THEN <<>>
    ELSE IF hdr.arr = ScannerArr THEN SubSeq(pr.Errors, 1, hdr.len)
    ELSE SubSeq(mem.arrays[hdr.arr], 1, hdr.len)

\* What a holder of the pointer a reads through it.
Load(a, mem, pr) ==
    IF a = ScannerAddr THEN pr
    ELSE [mem.heap[a] EXCEPT !.Errors = Elems(mem.heap[a].Errors, mem, pr)]

\* GetProgress returning &s.progress.
GetProgress_alias(pr, buf, mem) ==
    [ptr |-> ScannerAddr, heap |-> mem.heap, arrays |-> mem.arrays]

\* lines 430-449: a new ScanProgress with the counters as loaded (buf), the
\* current directory copied and, when the error log is not empty, a new
\* array of its length with its elements copied; the pointer to the new
\* struct is returned.
GetProgress(pr, buf, mem) ==
    LET copied == Len(pr.Errors) > 0
        arr == Len(mem.arrays) + 1
        new == [TotalFiles |-> buf.TotalFiles,
                ScannedFiles |-> buf.ScannedFiles,
                TotalSize |-> buf.TotalSize,
                ScannedSize |-> buf.ScannedSize,
                BlockedFiles |-> buf.BlockedFiles,
                Errors |-> IF copied THEN [arr |-> arr, len |-> Len(pr.Errors)]
                           ELSE [arr |-> NilArr, len |-> 0],
                CurrentDirectory |-> pr.CurrentDirectory]
    IN [ptr |-> Len(mem.heap) + 1,
        heap |-> Append(mem.heap, new),
        arrays |-> IF copied
                   THEN Append(mem.arrays, [i \in 1..Len(pr.Errors) |-> pr.Errors[i]])
                   ELSE mem.arrays]

\* The counters in the order lines 433-437 load them.
CounterLoads ==
    <<"TotalFiles", "ScannedFiles", "TotalSize", "ScannedSize", "BlockedFiles">>

\* line 428: s.mu.Lock(); the collector is not inside its locked lines.
\* The caller keeps the pointers of its calls before.
GetProgressLock ==
    /\ Alive
    /\ snapshot.pc = 0
    /\ Len(snapshot.ptrs) < MaxSnapshots
    /\ snapshot' = [snapshot EXCEPT !.pc = 1, !.buf = ZeroProgress]
    /\ UNCHANGED <<fs, root, config, progress, workChan, workClosed, resultChan,
                   resultClosed, errorChan, dirWg, wg, scanPc, workers, tasks,
                   closer, collector, result, retErr, panicked, sentLog, recvLog,
                   enqLog, deqLog, spawnLog, fs0, firstScan, classified, apiPc,
                   activeScans, scanResults, status>>

\* One of lines 433-437: a plain load of the k-th counter.
GetProgressLoad(k) ==
    /\ Alive
    /\ snapshot.pc = k
    /\ snapshot' = [snapshot EXCEPT !.pc = k + 1,
                                    !.buf[CounterLoads[k]] = progress[CounterLoads[k]]]
    /\ UNCHANGED <<fs, root, config, progress, workChan, workClosed, resultChan,
                   resultClosed, errorChan, dirWg, wg, scanPc, workers, tasks,
                   closer, collector, result, retErr, panicked, sentLog, recvLog,
                   enqLog, deqLog, spawnLog, fs0, firstScan, classified, apiPc,
                   activeScans, scanResults, status>>

\* lines 440-449: the current directory and the error log are copied, s.mu
\* is released and the pointer to the new struct is returned.
CallGetProgress ==
    /\ Alive
    /\ snapshot.pc = Len(CounterLoads) + 1
    /\ LET got == GetProgress(progress, snapshot.buf, Mem(snapshot))
       IN snapshot' = [pc |-> 0, buf |-> ZeroProgress,
                       ptrs |-> Append(snapshot.ptrs, got.ptr),
                       heap |-> got.heap, arrays |-> got.arrays]
    /\ UNCHANGED <<fs, root, config, progress, workChan, workClosed, resultChan,
                   resultClosed, errorChan, dirWg, wg, scanPc, workers, tasks,
                   closer, collector, result, retErr, panicked, sentLog, recvLog,
                   enqLog, deqLog, spawnLog, fs0, firstScan, classified, apiPc,
                   activeScans, scanResults, status>>

SnapNext ==
    \/ Next
    \/ GetProgressLock
    \/ \E k \in 1..Len(CounterLoads) : GetProgressLoad(k)
    \/ CallGetProgress

\* The scans snapshots are taken of: recursive scans by one worker, with
\* the largest queues, of the tree on which every kind of progress update
\* happens (the three counter additions of a worker, the directory counts
\* of the worker and of a traversal task running beside it, an error-log
\* append, current-directory updates).
SnapInit ==
    /\ fs \in {TreeG, TreeI}
    /\ root \in Roots
    /\ config = New([MaxFileSizeMB |-> 1, AllowedTypes |-> <<>>, BlockedPatterns |-> <<>>,
                     ScanRecursively |-> TRUE, ExportBlockedToJSON |-> FALSE,
                     WorkerCount |-> 1, BufferSize |-> MaxBuffer])
    /\ NewScanner
    /\ NoCaller

SnapSpec == SnapInit /\ [][SnapNext]_vars

(***************************************************************************)
(* The api handlers StartScan and GetStatus over the maps activeScans and  *)
(* scanResults.  One StartScan request is made, for the path root with the *)
(* configuration the scanner was built from; GetStatus is asked at any     *)
(* moment, for any path.  An entry of activeScans is [isNil |-> TRUE] for   *)
(* a nil *Scanner and [isNil |-> FALSE] for the scanner of the request.     *)
(***************************************************************************)
ApiInit ==
    /\ fs \in Trees
    /\ root \in Roots
    /\ config \in { New(c) : c \in Configs }
    /\ progress = ZeroProgress
    /\ workChan = <<>>
    /\ workClosed = FALSE
    /\ resultChan = <<>>
    /\ resultClosed = FALSE
    /\ errorChan = <<>>
    /\ dirWg = 0
    /\ wg = 0
    /\ scanPc = "unborn"
    /\ workers = [w \in 1..config.WorkerCount |->
                     [pc |-> "notstarted", file |-> FileInfo(<<>>), err |-> NilErr]]
    /\ tasks = NoTasks
    /\ closer = "notstarted"
    /\ collector = NewCollector
    /\ result = ZeroResult
    /\ retErr = NilErr
    /\ panicked = FALSE
    /\ sentLog = <<>>
    /\ recvLog = <<>>
    /\ enqLog = <<>>
    /\ deqLog = <<>>
    /\ spawnLog = <<>>
    /\ fs0 = fs
    /\ firstScan = NoScan
    /\ classified = FileInfo(<<>>)
    /\ snapshot = NoSnapshot
    /\ apiPc = "ready"
    /\ activeScans = NoScans
    /\ scanResults = NoScans
    /\ status = NoStatus

\* StartScan, lines 32-59: an empty path is refused; otherwise the scanner
\* is built and the goroutine that will call Scan is started.
StartScan ==
    /\ Alive
    /\ apiPc = "ready"
    /\ IF root = <<>>
       THEN /\ apiPc' = "rejected"
            /\ scanPc' = scanPc
       ELSE /\ apiPc' = "scanning"
            /\ scanPc' = "idle"
    /\ UNCHANGED <<fs, root, config, progress, workChan, workClosed, resultChan,
                   resultClosed, errorChan, dirWg, wg, workers, tasks, closer,
                   collector, result, retErr, panicked, sentLog, recvLog, enqLog,
                   deqLog, spawnLog, fs0, firstScan, classified, snapshot,
                   activeScans, scanResults, status>>

\* The goroutine of StartScan, lines 42-52, once Scan has returned.
StoreScan ==
    /\ Alive
    /\ apiPc = "scanning"
    /\ scanPc \in {"returned", "failed"}
    /\ IF retErr # NilErr
       THEN /\ activeScans' = (root :> [isNil |-> TRUE]) @@ activeScans
            /\ scanResults' = scanResults
       ELSE /\ scanResults' = (root :> result) @@ scanResults
            /\ activeScans' = (root :> [isNil |-> FALSE]) @@ activeScans
    /\ apiPc' = "stored"
    /\ UNCHANGED <<fs, root, config, progress, workChan, workClosed, resultChan,
                   resultClosed, errorChan, dirWg, wg, scanPc, workers, tasks,
                   closer, collector, result, retErr, panicked, sentLog, recvLog,
                   enqLog, deqLog, spawnLog, fs0, firstScan, classified, snapshot,
                   status>>

\* How far the scan of path id is: history, for the properties only.
Phase(id) ==
    IF id # root \/ apiPc \in {"direct", "ready", "rejected"} THEN "none"
    ELSE IF apiPc = "scanning" /\ scanPc \notin {"returned", "failed"} THEN "running"
    ELSE IF apiPc = "scanning" THEN "returning"
    ELSE IF retErr # NilErr THEN "failed"
    ELSE "completed"

\* GetStatus, lines 69-72: what the handler reads from the maps for the
\* path id under scanMutex.RLock().
Lookup(id) ==
    [id |-> id, phase |-> Phase(id),
     scannerExists |-> id \in DOMAIN activeScans,
     isNil |-> id \in DOMAIN activeScans /\ activeScans[id].isNil,
     resultExists |-> id \in DOMAIN scanResults,
     Result |-> IF id \in DOMAIN scanResults THEN scanResults[id] ELSE ZeroResult]

\* GetStatus, lines 74-97: the response made from what was read.  A scanner
\* that is in activeScans has returned from Scan, so nothing writes to its
\* progress while GetProgress (line 94) reads it.
StatusOf(req) ==
    LET answer == [NoStatus EXCEPT !.asked = TRUE, !.id = req.id, !.phase = req.phase]
    IN IF ~req.scannerExists
       THEN IF req.resultExists
            THEN [answer EXCEPT !.code = 200, !.State = "completed",
                                !.hasResult = TRUE, !.Result = req.Result]
            ELSE [answer EXCEPT !.code = 404, !.State = "not_found"]
       ELSE IF req.isNil
            THEN [answer EXCEPT !.code = 200, !.State = "error"]
       ELSE [answer EXCEPT !.code = 200, !.State = "running",
                           !.hasProgress = TRUE,
                           !.Progress =
                               LET got == GetProgress(progress, progress, NoMem)
                               IN Load(got.ptr, got, progress)]

\* GetStatus, lines 63-72: an empty id is refused (400); otherwise the maps
\* are read under scanMutex.RLock() and the lock is released.
GetStatus(id) ==
    /\ Alive
    /\ apiPc # "direct"
    /\ status.pc = "idle"
    /\ status' = IF id = <<>>
                 THEN [NoStatus EXCEPT !.asked = TRUE, !.id = id, !.phase = Phase(id),
                                       !.code = 400]
                 ELSE [NoStatus EXCEPT !.pc = "looked", !.req = Lookup(id)]
    /\ UNCHANGED <<fs, root, config, progress, workChan, workClosed, resultChan,
                   resultClosed, errorChan, dirWg, wg, scanPc, workers, tasks,
                   closer, collector, result, retErr, panicked, sentLog, recvLog,
                   enqLog, deqLog, spawnLog, fs0, firstScan, classified, snapshot,
                   apiPc, activeScans, scanResults>>

\* GetStatus, lines 74-97: the handler answers from what it read.
GetStatusRespond ==
    /\ Alive
    /\ status.pc = "looked"
    /\ MuFree
    /\ status' = StatusOf(status.req)
    /\ UNCHANGED <<fs, root, config, progress, workChan, workClosed, resultChan,
                   resultClosed, errorChan, dirWg, wg, scanPc, workers, tasks,
                   closer, collector, result, retErr, panicked, sentLog, recvLog,
                   enqLog, deqLog, spawnLog, fs0, firstScan, classified, snapshot,
                   apiPc, activeScans, scanResults>>

ApiNext ==
    \/ Next
    \/ StartScan
    \/ StoreScan
    \/ \E id \in Roots : GetStatus(id)
    \/ GetStatusRespond

ApiSpec == ApiInit /\ [][ApiNext]_vars

(***************************************************************************)
(* The same tree scanned a second time with the same configuration, by a   *)
(* new scanner, after the first scan has returned (and, when it exports,   *)
(* has written blocked_files.json into the root).                          *)
(***************************************************************************)
ScanAgain ==
    /\ Alive
    /\ scanPc = "returned"
    /\ ~firstScan.done
    /\ firstScan' = [done |-> TRUE, Files |-> { result.Files[i] : i \in 1..Len(result.Files) },
                     Counts |-> Counts(result.Progress)]
    /\ fs0' = fs
    /\ progress' = ZeroProgress
    /\ workChan' = <<>>
    /\ workClosed' = FALSE
    /\ resultChan' = <<>>
    /\ resultClosed' = FALSE
    /\ errorChan' = <<>>
    /\ dirWg' = 0
    /\ wg' = 0
    /\ scanPc' = "idle"
    /\ workers' = [w \in 1..config.WorkerCount |->
                      [pc |-> "notstarted", file |-> FileInfo(<<>>), err |-> NilErr]]
    /\ tasks' = NoTasks
    /\ closer' = "notstarted"
    /\ collector' = NewCollector
    /\ result' = ZeroResult
    /\ retErr' = NilErr
    /\ sentLog' = <<>>
    /\ recvLog' = <<>>
    /\ enqLog' = <<>>
    /\ deqLog' = <<>>
    /\ spawnLog' = <<>>
    /\ UNCHANGED <<fs, root, config, panicked, classified, snapshot, apiPc,
                   activeScans, scanResults, status>>

TwiceNext ==
    \/ Next
    \/ ScanAgain

\* The scans that are repeated: exporting scans of the tree of Scenario A,
\* of a tree with a dangling link in a root nothing can be created in, and
\* of a tree that holds export files already.
TwiceInit == Init /\ fs \in {TreeA, TreeD, TreeE, TreeI} /\ config.ExportBlockedToJSON

TwiceSpec == TwiceInit /\ [][TwiceNext]_vars

(***************************************************************************)
(* Properties.                                                             *)
(***************************************************************************)
Returned == scanPc = "returned"

IsFileRes(r) == r.Error = NilErr
IsErrorRes(r) == r.Error # NilErr

\* The FileInfo values of the results without error, in order.
FilesOf(log) ==
    LET sel == SelectSeq(log, IsFileRes)
    IN [i \in 1..Len(sel) |-> sel[i].FileInfo]

\* The error texts of the results with an error, in order.
ErrorsOf(log) ==
    LET sel == SelectSeq(log, IsErrorRes)
    IN [i \in 1..Len(sel) |-> ErrorString(sel[i].Error)]

IsPrefix(s, t) == Len(s) <= Len(t) /\ SubSeq(t, 1, Len(s)) = s

\* How many results for path p were sent, and how many workers hold p.
SentFor(p) == Cardinality({ i \in 1..Len(sentLog) : sentLog[i].FileInfo.Path = p })
HeldFor(p) == Cardinality({ w \in DOMAIN workers :
                              /\ workers[w].pc \in {"senderr", "count", "countsize", "countblocked", "send"}
                              /\ workers[w].file.Path = p })

\* The export step of this scan failed (a failed export leaves the tree as
\* it was, a successful one leaves the output file behind).
ExportFailed ==
    /\ Returned
    /\ config.ExportBlockedToJSON
    /\ ExportBlockedFiles(fs, result, Join(root, ExportFileName)) # NilErr

\* C1: a Scan started on an existing root directory eventually returns a
\* result, for every worker count and queue capacity: traversal tasks,
\* workers and collector never block each other for ever.
C1_ScanReturns == (scanPc # "idle" /\ IsDir(fs, root)) ~> Returned

\* C2: every work item enqueued is dequeued exactly once and every file
\* work item yields exactly one result; every result sent is received
\* exactly once by the collector, which runs before any result exists; when
\* Scan returns each result is exactly one entry of Files or of the error log.
C2_ExactlyOnce ==
    /\ recvLog \o resultChan = sentLog
    /\ deqLog \o workChan = enqLog
    /\ sentLog # <<>> => collector.pc # "notstarted"
    /\ \A i \in 1..Len(deqLog) :
           ~deqLog[i].IsDir => SentFor(deqLog[i].Path) + HeldFor(deqLog[i].Path) = 1
    /\ Returned =>
           /\ recvLog = sentLog
           /\ deqLog = enqLog
           /\ \A i \in 1..Len(enqLog) : ~enqLog[i].IsDir => SentFor(enqLog[i].Path) = 1
           /\ result.Files = FilesOf(sentLog)
           /\ progress.Errors = ErrorsOf(sentLog)
           /\ IsPrefix(ErrorsOf(sentLog), result.Progress.Errors)

\* A scan with two workers returned two file records and a logged error.
C2_Witness ==
    /\ Returned
    /\ config.WorkerCount > 1
    /\ Len(result.Files) > 2
    /\ Len(progress.Errors) > 0
    /\ \E i \in 1..Len(result.Files) : ~result.Files[i].IsDirectory

\* C3: in every returned result TotalFiles is the number of records in
\* Files, directories and files together.
C3_TotalFilesIsLenFiles ==
    Returned => result.Progress.TotalFiles = Len(result.Files)

\* C5: in every returned result Success is true exactly when the error log
\* of the result is empty, also after a failed export.
C5_SuccessIffNoErrors ==
    Returned => (result.Success <=> Len(result.Progress.Errors) = 0)

\* C6: when the export fails, Scan still returns the result with a nil
\* error, Files and the counters are what the scan produced, and exactly one
\* error string is appended to the error log of the result.
C6_ExportFailureNotFatal ==
    ExportFailed =>
        /\ retErr = NilErr
        /\ result.Files = collector.files
        /\ result.Progress.TotalFiles = progress.TotalFiles
        /\ result.Progress.ScannedFiles = progress.ScannedFiles
        /\ result.Progress.TotalSize = progress.TotalSize
        /\ result.Progress.ScannedSize = progress.ScannedSize
        /\ result.Progress.BlockedFiles = progress.BlockedFiles
        /\ Len(result.Progress.Errors) = Len(progress.Errors) + 1
        /\ IsPrefix(progress.Errors, result.Progress.Errors)
        /\ result.Progress.Errors[Len(result.Progress.Errors)].msg[1]
               = "Failed to export blocked files: "

\* The export failed after a scan that had already logged an error.
C6_Witness == ExportFailed /\ Len(progress.Errors) > 0

\* C10: a Scan of the empty path or of a path that does not exist returns an
\* error and no result, and starts nothing: no collector, worker or
\* traversal task, no queue activity, the progress untouched.
C10_InvalidRootStartsNothing ==
    (scanPc # "idle" /\ (root = <<>> \/ ~Exists(fs, root))) =>
        /\ scanPc = "failed"
        /\ retErr # NilErr
        /\ result = ZeroResult
        /\ collector.pc = "notstarted"
        /\ \A w \in DOMAIN workers : workers[w].pc = "notstarted"
        /\ tasks = NoTasks
        /\ closer = "notstarted"
        /\ wg = 0 /\ dirWg = 0
        /\ workChan = <<>> /\ resultChan = <<>> /\ errorChan = <<>>
        /\ progress = ZeroProgress

\* Scan was called with a path that does not exist and has returned.
C10_Witness == scanPc = "failed" /\ root # <<>> /\ ~Exists(fs, root)

(***************************************************************************)
(* What a scan of a tree yields, as a function of the tree and of the      *)
(* configuration without its worker count and queue capacity.              *)
(***************************************************************************)
Semantics(cfg) == [cfg EXCEPT !.WorkerCount = 1, !.BufferSize = 1]

Under(r, x) == Len(x) > Len(r) /\ SubSeq(x, 1, Len(r)) = r

Children(f, d) == { x \in DOMAIN f : Len(x) = Len(d) + 1 /\ Dir(x) = d }

\* The directories a traversal task is started for.
Visited(f, cfg, r) ==
    {r} \cup IF cfg.ScanRecursively
             THEN { d \in DOMAIN f :
                      /\ IsDir(f, d)
                      /\ Under(r, d)
                      /\ InfoErr(f, d) = NilErr
                      /\ \A k \in Len(r)..(Len(d) - 1) :
                             ReadDirErr(f, SubSeq(d, 1, k)) = NilErr }
             ELSE {}

\* The directories whose entries are enumerated.
Listed(f, cfg, r) == { d \in Visited(f, cfg, r) : ReadDirErr(f, d) = NilErr }

ExpectedDirs(f, cfg, r) ==
    {r} \cup { x \in DOMAIN f :
                 /\ IsDir(f, x)
                 /\ InfoErr(f, x) = NilErr
                 /\ Dir(x) \in Listed(f, cfg, r)
                 /\ Len(x) > Len(r)
                 /\ (cfg.ScanRecursively \/ Dir(x) = r) }

ExpectedWork(f, cfg, r) ==
    { x \in DOMAIN f :
        /\ ~IsDir(f, x)
        /\ InfoErr(f, x) = NilErr
        /\ Len(x) > Len(r)
        /\ Dir(x) \in Listed(f, cfg, r)
        /\ ~(cfg.ExportBlockedToJSON /\ Base(x) = ExportFileName) }

ExpectedFiles(f, cfg, r) ==
    { Classify(cfg, f, x) : x \in { y \in ExpectedWork(f, cfg, r) : Stat(f, y) = NilErr } }

ExpectedRecords(f, cfg, r) ==
    { DirInfo(d, Base(d)) : d \in ExpectedDirs(f, cfg, r) } \cup ExpectedFiles(f, cfg, r)

ExpectedErrors(f, cfg, r) ==
    { ErrorString(Stat(f, x)) : x \in { y \in ExpectedWork(f, cfg, r) : Stat(f, y) # NilErr } }

RECURSIVE SumSize(_)
SumSize(S) ==
    IF S = {} THEN 0
    ELSE LET x == CHOOSE y \in S : TRUE IN x.Size + SumSize(S \ {x})

Range(seq) == { seq[i] : i \in 1..Len(seq) }

\* C4: for a fixed tree and configuration every completed scan yields the
\* same set of records, the same counters and the same blocked set, whatever
\* the worker count and the interleaving: they are a function of the tree
\* and of the configuration without the worker count.
C4_ResultIndependentOfWorkers ==
    Returned =>
        LET cfg == Semantics(config)
            recs == ExpectedRecords(fs, cfg, root)
            files == ExpectedFiles(fs, cfg, root)
        IN /\ Range(result.Files) = recs
           /\ Len(result.Files) = Cardinality(recs)
           /\ { x \in Range(result.Files) : x.IsBlocked } = { x \in recs : x.IsBlocked }
           /\ result.Progress.TotalFiles = Cardinality(ExpectedDirs(fs, cfg, root))
           /\ result.Progress.ScannedFiles = Cardinality(files)
           /\ result.Progress.ScannedSize = SumSize(files)
           /\ result.Progress.BlockedFiles = Cardinality({ x \in files : x.IsBlocked })
           /\ result.Progress.TotalSize = 0
           /\ Range(progress.Errors) = ExpectedErrors(fs, cfg, root)

\* A scan with several workers returned the five records of Scenario A, one
\* of them blocked.
C4_Witness ==
    /\ Returned
    /\ config.WorkerCount > 1
    /\ Len(result.Files) > 4
    /\ result.Progress.ScannedFiles > 2
    /\ \E i \in 1..Len(result.Files) : result.Files[i].IsBlocked

\* C7: a directory whose read failed has an error entry naming its path in
\* the error log of the returned result, the scan still returns, and nothing
\* below that directory is recorded.
C7_ReadDirFailureLogged ==
    Returned =>
        \A p \in DOMAIN tasks :
            ReadDirErr(fs, p) # NilErr =>
                /\ \E i \in 1..Len(result.Progress.Errors) :
                       result.Progress.Errors[i].path = p
                /\ \A i \in 1..Len(result.Files) : ~Under(p, result.Files[i].Path)

\* C8: after a recursive scan, a directory under the root without any
\* permission has a record with IsDirectory, IsBlocked and an access error.
C8_NoPermissionDirBlocked ==
    (Returned /\ config.ScanRecursively) =>
        \A d \in DOMAIN fs :
            (IsDir(fs, d) /\ Dir(d) = root /\ ~fs[d].readable) =>
                \E i \in 1..Len(result.Files) :
                    /\ result.Files[i].Path = d
                    /\ result.Files[i].IsDirectory
                    /\ result.Files[i].IsBlocked
                    /\ result.Files[i].AccessError # EmptyString

\* The queued files that os.Stat accepts and os.Open refuses.
Unopenable ==
    { x \in { enqLog[i].Path : i \in 1..Len(enqLog) } :
        ~IsDir(fs, x) /\ Stat(fs, x) = NilErr /\ ~fs[x].readable }

\* C9: a file that can be stat'ed but not opened has a record with an access
\* error, is blocked and counted in BlockedFiles, and an error naming its
\* path is in the error log.
C9_UnopenableFileBlocked ==
    Returned =>
        /\ \A x \in Unopenable :
               /\ \E i \in 1..Len(result.Files) :
                      /\ result.Files[i].Path = x
                      /\ result.Files[i].AccessError # EmptyString
                      /\ result.Files[i].IsBlocked
               /\ \E i \in 1..Len(result.Progress.Errors) :
                      result.Progress.Errors[i].path = x
        /\ result.Progress.BlockedFiles >= Cardinality(Unopenable)

(***************************************************************************)
(* The classifier (under ClassSpec).                                       *)
(***************************************************************************)
Classified == classified.Path # <<>>

SizeLimit == config.MaxFileSizeMB * BytesPerMB

\* C11: a file of exactly MaxFileSizeMB*1024*1024 bytes is not blocked when
\* no allow-list and no pattern is configured, and a file one byte larger
\* is blocked with the reason "File size exceeds limit".
C11_SizeBoundary ==
    Classified =>
        /\ (/\ classified.Size = SizeLimit
             /\ config.AllowedTypes = <<>>
             /\ config.BlockedPatterns = <<>>)
               => (~classified.IsBlocked /\ classified.BlockReason = NoReason)
        /\ classified.Size = SizeLimit + 1
               => /\ classified.IsBlocked
                  /\ classified.BlockReason.msg = "File size exceeds limit"

C11_Witness ==
    /\ Classified
    /\ config.MaxFileSizeMB >= 1
    /\ classified.Size = SizeLimit
    /\ config.AllowedTypes = <<>>
    /\ config.BlockedPatterns = <<>>
    /\ ~classified.IsBlocked

\* The rules as the specification words them, from the name and size of the
\* classified file.
SizeCaught == classified.Size > SizeLimit

ExtensionListed ==
    \E i \in 1..Len(config.AllowedTypes) :
        ToLower(config.AllowedTypes[i]) = ToLower(Ext(classified.Name))

TypeCaught == Len(config.AllowedTypes) > 0 /\ ~ExtensionListed

MatchingPatterns ==
    { i \in 1..Len(config.BlockedPatterns) :
        WellFormed(config.BlockedPatterns[i])
        /\ Glob(config.BlockedPatterns[i], classified.Name) }

PatternCaught == MatchingPatterns # {}

\* C12: with a non-empty allow-list a file whose extension is not in the
\* list is blocked, and a file whose extension is in the list (compared
\* without regard to case) is blocked only by the size rule or a pattern;
\* with an empty allow-list the rule blocks nothing.
C12_AllowList ==
    Classified =>
        /\ TypeCaught => classified.IsBlocked
        /\ ~TypeCaught => (classified.IsBlocked <=> (SizeCaught \/ PatternCaught))

C12_Witness ==
    /\ Classified
    /\ Len(config.AllowedTypes) > 0
    /\ ExtensionListed
    /\ \A i \in 1..Len(config.AllowedTypes) :
           config.AllowedTypes[i] # Ext(classified.Name)
    /\ ~classified.IsBlocked

PatternReason(i) ==
    [msg |-> "File matches blocked pattern: ", pattern |-> config.BlockedPatterns[i]]

FirstMatching == CHOOSE i \in MatchingPatterns : \A j \in MatchingPatterns : i <= j

\* C13 as stated: a file whose base name matches a configured pattern is
\* blocked and its BlockReason names that pattern.
C13_ReasonNamesEveryMatchingPattern ==
    Classified =>
        \A i \in MatchingPatterns :
            classified.IsBlocked /\ classified.BlockReason = PatternReason(i)

\* C13, amended: a file whose base name matches a configured pattern is
\* blocked; its BlockReason names the first configured pattern the name
\* matches when the file passes the size rule and the allow-list rule, and
\* is the reason of the size rule or of the allow-list rule otherwise.
C13_PatternBlocked ==
    (Classified /\ PatternCaught) =>
        /\ classified.IsBlocked
        /\ (~SizeCaught /\ ~TypeCaught)
               => classified.BlockReason = PatternReason(FirstMatching)
        /\ SizeCaught => classified.BlockReason.msg = "File size exceeds limit"
        /\ (~SizeCaught /\ TypeCaught)
               => classified.BlockReason.msg = "File type not allowed"

C13_Witness ==
    /\ Classified
    /\ Cardinality(MatchingPatterns) > 1
    /\ ~SizeCaught
    /\ ~TypeCaught
    /\ classified.IsBlocked
    /\ classified.BlockReason = PatternReason(FirstMatching)

\* The reason of the first rule violated, in the order size, allow-list,
\* pattern.
FirstRuleReason ==
    IF SizeCaught THEN [msg |-> "File size exceeds limit", pattern |-> <<>>]
    ELSE IF TypeCaught THEN [msg |-> "File type not allowed", pattern |-> <<>>]
    ELSE PatternReason(FirstMatching)

\* C14: the decision and the reason never disagree: the record has a
\* non-empty BlockReason exactly when IsBlocked is true, the reason is that
\* of the first rule violated (size, allow-list, pattern), and
\* getBlockReason falls through to "Unknown reason" exactly for the files
\* shouldBlockFile does not block, malformed patterns included.
C14_DecisionAndReasonAgree ==
    Classified =>
        /\ classified.IsBlocked <=> classified.BlockReason # NoReason
        /\ classified.IsBlocked <=> (SizeCaught \/ TypeCaught \/ PatternCaught)
        /\ classified.IsBlocked => classified.BlockReason = FirstRuleReason
        /\ classified.IsBlocked => classified.BlockReason.msg # "Unknown reason"
        /\ shouldBlockFile(config, classified)
              <=> getBlockReason(config, classified).msg # "Unknown reason"

C14_Witness ==
    /\ Classified
    /\ \E i \in 1..Len(config.BlockedPatterns) : Match(config.BlockedPatterns[i], classified.Name).err
    /\ classified.IsBlocked
    /\ ~SizeCaught
    /\ ~TypeCaught
    /\ classified.BlockReason = PatternReason(FirstMatching)

(***************************************************************************)
(* The traversal (under Spec).                                             *)
(***************************************************************************)
\* The directories and the regular files of the tree below r, r included.
DirsIn(f, r) == {r} \cup { x \in DOMAIN f : Under(r, x) /\ f[x].kind = "dir" }

RegularIn(f, r) ==
    { x \in DOMAIN f : Under(r, x) /\ f[x].kind = "file" /\ f[x].target = "file"
                                   /\ f[x].statOk }

\* Every directory can be listed and searched, every other entry is a
\* regular file that can be stat'ed and opened.
FullyReadable(f, r) ==
    /\ IsDir(f, r)
    /\ \A x \in DOMAIN f : (x = r \/ Under(r, x)) =>
           /\ f[x].readable
           /\ f[x].searchable
           /\ f[x].kind = "file" => (f[x].statOk /\ f[x].target = "file")

\* The files an exporting scan passes over (line 285).
Reserved(f, cfg, r) ==
    { x \in RegularIn(f, r) : cfg.ExportBlockedToJSON /\ Base(x) = ExportFileName }

RecordsFor(p, isDir) ==
    Cardinality({ i \in 1..Len(result.Files) :
                    result.Files[i].Path = p /\ result.Files[i].IsDirectory = isDir })

SpawnsFor(p) == Cardinality({ i \in 1..Len(spawnLog) : spawnLog[i] = p })

BlockedRecords ==
    Cardinality({ i \in 1..Len(result.Files) : result.Files[i].IsBlocked })

RecursiveOverReadable ==
    Returned /\ config.ScanRecursively /\ FullyReadable(fs0, root)

\* C15 as stated: in recursive mode over a fully readable tree every
\* directory yields one directory record and one traversal task, every
\* regular file yields one file record, and len(Files) is the number of
\* directories plus the number of regular files.
C15_EveryRegularFileRecorded ==
    RecursiveOverReadable =>
        /\ \A d \in DirsIn(fs0, root) :
               RecordsFor(d, TRUE) = 1 /\ RecordsFor(d, FALSE) = 0 /\ SpawnsFor(d) = 1
        /\ \A x \in RegularIn(fs0, root) :
               RecordsFor(x, FALSE) = 1 /\ RecordsFor(x, TRUE) = 0
        /\ Len(result.Files)
              = Cardinality(DirsIn(fs0, root)) + Cardinality(RegularIn(fs0, root))

\* C15, amended: the same, for every regular file except those named
\* blocked_files.json when the scan exports, which yield no record; the
\* tree of Scenario A gives 5 records, 1 of them blocked.
C15_RecursiveCoverage ==
    RecursiveOverReadable =>
        /\ \A d \in DirsIn(fs0, root) :
               RecordsFor(d, TRUE) = 1 /\ RecordsFor(d, FALSE) = 0 /\ SpawnsFor(d) = 1
        /\ \A x \in RegularIn(fs0, root) \ Reserved(fs0, config, root) :
               RecordsFor(x, FALSE) = 1 /\ RecordsFor(x, TRUE) = 0
        /\ \A x \in Reserved(fs0, config, root) :
               RecordsFor(x, FALSE) = 0 /\ RecordsFor(x, TRUE) = 0
        /\ Len(result.Files)
              = Cardinality(DirsIn(fs0, root)) + Cardinality(RegularIn(fs0, root))
                - Cardinality(Reserved(fs0, config, root))
        /\ Len(spawnLog) = Cardinality(DirsIn(fs0, root))
        /\ fs0 = TreeA => (Len(result.Files) = 5 /\ BlockedRecords = 1)

C15_Witness ==
    /\ RecursiveOverReadable
    /\ fs0 = TreeA
    /\ Len(result.Files) = 5
    /\ BlockedRecords = 1

\* The root or a direct child of the root.
AtRoot(x) == x = root \/ Dir(x) = root

ChildDirs(f, r) == { x \in DOMAIN f : Dir(x) = r /\ Len(x) = Len(r) + 1 /\ f[x].kind = "dir" }

\* C16: in non-recursive mode only the root is enumerated: no traversal
\* task is started for a child directory, nothing below a child directory
\* is queued or recorded, and a scan that returns after listing the root
\* holds exactly one directory record for each child directory of the root.
C16_NonRecursiveStaysAtRoot ==
    ~config.ScanRecursively =>
        /\ \A i \in 1..Len(spawnLog) : spawnLog[i] = root
        /\ Len(spawnLog) <= 1
        /\ \A p \in DOMAIN tasks : p = root
        /\ \A i \in 1..Len(enqLog) : AtRoot(enqLog[i].Path)
        /\ \A i \in 1..Len(sentLog) : AtRoot(sentLog[i].FileInfo.Path)
        /\ \A i \in 1..Len(collector.files) : AtRoot(collector.files[i].Path)
        /\ (Returned /\ ReadDirErr(fs0, root) = NilErr) =>
               /\ \A d \in ChildDirs(fs0, root) :
                      RecordsFor(d, TRUE) = 1 /\ RecordsFor(d, FALSE) = 0
               /\ \A i \in 1..Len(result.Files) : AtRoot(result.Files[i].Path)

C16_Witness ==
    /\ Returned
    /\ ~config.ScanRecursively
    /\ \E d \in ChildDirs(fs0, root) :
           /\ \E x \in DOMAIN fs0 : Dir(x) = d /\ Len(x) = Len(d) + 1
           /\ RecordsFor(d, TRUE) = 1
           /\ SpawnsFor(d) = 0

(***************************************************************************)
(* Progress snapshots (under SnapSpec).                                    *)
(***************************************************************************)
scannerVars ==
    <<fs, root, config, progress, workChan, workClosed, resultChan, resultClosed,
      errorChan, dirWg, wg, scanPc, workers, tasks, closer, collector, result,
      retErr, panicked>>

\* The pointers the caller holds.
Held(snap) == { snap.ptrs[i] : i \in DOMAIN snap.ptrs }

\* The arrays that can be reached through the pointer a.
ArraysOf(a, mem) ==
    IF a = ScannerAddr THEN {ScannerArr} ELSE {mem.heap[a].Errors.arr} \ {NilArr}

\* C17: a snapshot is a deep copy.  (1) What the holder of a pointer that
\* GetProgress returned reads through it is changed by no later step:
\* neither by a step of the scan (counter additions, error-log appends,
\* current-directory updates) nor by a step of a later call.  (2) No step of
\* a call of GetProgress changes state of the scan.  (3) The struct a call
\* returns is new and shares no array with the scanner or with a struct
\* returned before, and it holds the error log and the current directory as
\* they stand and, for each counter, a value the counter has reached.
C17_SnapshotIsDeepCopy ==
    [][/\ \A a \in Held(snapshot) \cap Held(snapshot') :
              Load(a, Mem(snapshot'), progress') = Load(a, Mem(snapshot), progress)
       /\ snapshot' # snapshot => UNCHANGED scannerVars
       /\ Len(snapshot'.ptrs) > Len(snapshot.ptrs)
              => LET a == snapshot'.ptrs[Len(snapshot'.ptrs)]
                     got == Load(a, Mem(snapshot'), progress')
                 IN /\ a \notin Held(snapshot) \cup {ScannerAddr}
                    /\ \A b \in Held(snapshot) \cup {ScannerAddr} :
                           ArraysOf(a, Mem(snapshot'))
                               \cap ArraysOf(b, Mem(snapshot')) = {}
                    /\ got.Errors = progress.Errors
                    /\ got.CurrentDirectory = progress.CurrentDirectory
                    /\ \A k \in 1..Len(CounterLoads) :
                           got[CounterLoads[k]] <= progress[CounterLoads[k]]]_vars

\* Two snapshots are held, the first from before the error log was written
\* and the second from after: the scan has counted a file and a directory,
\* logged an error and moved its current directory since the first was
\* returned, and a second call has run while the first was held.
C17_Witness ==
    /\ Len(snapshot.ptrs) = 2
    /\ LET first == Load(snapshot.ptrs[1], Mem(snapshot), progress)
           second == Load(snapshot.ptrs[2], Mem(snapshot), progress)
       IN /\ first.TotalFiles > 0
          /\ first.Errors = <<>>
          /\ Len(second.Errors) > 0
          /\ second.ScannedFiles > first.ScannedFiles
          /\ progress.TotalFiles > first.TotalFiles
          /\ progress.CurrentDirectory # first.CurrentDirectory

(***************************************************************************)
(* The api handlers (under ApiSpec).                                       *)
(***************************************************************************)
\* C18: a GetStatus answered while the scan StartScan launched for that
\* path has not returned from Scan reports the state "running" with a
\* progress snapshot.
C18_RunningWhileScanning ==
    (status.asked /\ status.phase = "running")
        => (status.State = "running" /\ status.hasProgress)

\* C19: a GetStatus answered after the scan StartScan launched for that
\* path has completed successfully reports the state "completed" and
\* returns the final ScanResult.
C19_CompletedAfterSuccess ==
    (status.asked /\ status.phase = "completed")
        => (status.State = "completed" /\ status.hasResult /\ status.Result = result)

(***************************************************************************)
(* Scanning twice (under TwiceSpec).                                       *)
(***************************************************************************)
IsExportFile(x) == Len(x) > 0 /\ Base(x) = ExportFileName

\* C20: a second scan of the same tree with the same configuration returns
\* the same set of records and the same aggregate counts as the first,
\* also when the first scan has written blocked_files.json into the root;
\* an exporting scan never queues a file named blocked_files.json as a work
\* item and never holds a record of one.
C20_RescanIsIdempotent ==
    /\ (firstScan.done /\ Returned) =>
           /\ Range(result.Files) = firstScan.Files
           /\ Len(result.Files) = Cardinality(firstScan.Files)
           /\ Counts(result.Progress) = firstScan.Counts
    /\ config.ExportBlockedToJSON =>
           /\ \A i \in 1..Len(enqLog) : ~IsExportFile(enqLog[i].Path)
           /\ \A i \in 1..Len(sentLog) : ~IsExportFile(sentLog[i].FileInfo.Path)
           /\ \A i \in 1..Len(collector.files) : ~IsExportFile(collector.files[i].Path)
           /\ \A i \in 1..Len(result.Files) : ~IsExportFile(result.Files[i].Path)

C20_Witness ==
    /\ firstScan.done
    /\ Returned
    /\ config.ExportBlockedToJSON
    /\ fs0 = Exported(TreeA, Join(root, ExportFileName))
    /\ Len(result.Files) = 5
    /\ Range(result.Files) = firstScan.Files

(***************************************************************************)
(* Counters, queues and wait groups of one scan (under Spec).              *)
(***************************************************************************)
\* C21: throughout a scan no step lowers TotalFiles, ScannedFiles,
\* TotalSize, ScannedSize or BlockedFiles, and the error log only grows.
C21_CountersMonotonic ==
    [][/\ progress'.TotalFiles >= progress.TotalFiles
       /\ progress'.ScannedFiles >= progress.ScannedFiles
       /\ progress'.TotalSize >= progress.TotalSize
       /\ progress'.ScannedSize >= progress.ScannedSize
       /\ progress'.BlockedFiles >= progress.BlockedFiles
       /\ IsPrefix(progress.Errors, progress'.Errors)]_vars

C21_Witness ==
    /\ Returned
    /\ progress.TotalFiles > 1
    /\ progress.ScannedFiles > 0
    /\ progress.ScannedSize > 0
    /\ Len(progress.Errors) > 0

\* Traversal tasks in flight: the running activations, the root directory
\* still waiting in the work queue, and the goroutines registered by line
\* 262 but not yet started by line 271.
RunningTasks == { p \in DOMAIN tasks : Running(p) }

PendingRoots == { i \in 1..Len(workChan) : workChan[i].IsDir }

PendingSpawns ==
    { p \in RunningTasks : config.ScanRecursively /\ tasks[p].pc \in {"senddir", "incdir"} }

InFlight ==
    Cardinality(RunningTasks) + Cardinality(PendingRoots) + Cardinality(PendingSpawns)

\* C22: the in-flight counter is never zero while a traversal task runs or
\* is pending, so the work queue is closed only when none is left; no
\* traversal task sends on the closed work queue, and every work item that
\* was queued is received by a worker before Scan returns.
C22_WorkQueueClosedAfterTraversal ==
    /\ dirWg >= InFlight
    /\ InFlight > 0 => (dirWg > 0 /\ ~workClosed)
    /\ workClosed => (dirWg = 0 /\ InFlight = 0)
    /\ ~panicked
    /\ IsPrefix(deqLog, enqLog)
    /\ workChan = SubSeq(enqLog, Len(deqLog) + 1, Len(enqLog))
    /\ Returned => deqLog = enqLog

C22_Witness ==
    /\ workClosed
    /\ Returned
    /\ Len(spawnLog) > 1
    /\ Len(enqLog) > 2

\* C23: when the result queue is closed every worker has exited and every
\* traversal task, the goroutines outside the worker wait group included,
\* has returned; no goroutine sends on the closed result queue.
C23_ResultQueueClosedAfterProducers ==
    /\ resultClosed =>
           /\ \A w \in DOMAIN workers : workers[w].pc = "exited"
           /\ wg = 0
           /\ \A p \in DOMAIN tasks : tasks[p].pc = "done"
           /\ InFlight = 0
           /\ workClosed
           /\ Len(workChan) = 0
    /\ ~panicked

C23_Witness ==
    /\ resultClosed
    /\ \E p \in DOMAIN tasks : tasks[p].owner = 0
    /\ Len(sentLog) >= 5

NonDirectoryRecords ==
    Cardinality({ i \in 1..Len(result.Files) : ~result.Files[i].IsDirectory })

\* The records workers made from work items: those of the entries the
\* listings report as non-directories.
WorkItemRecords ==
    Cardinality({ i \in 1..Len(result.Files) : ~IsDir(fs0, result.Files[i].Path) })

\* Nobody is left who could write to the progress.
Quiescent ==
    /\ \A w \in DOMAIN workers : workers[w].pc = "exited"
    /\ \A p \in DOMAIN tasks : tasks[p].pc = "done"
    /\ collector.pc = "done"
    /\ Len(resultChan) = 0

\* C24 as stated: in every returned result ScannedFiles is the number of
\* non-directory records, BlockedFiles the number of blocked records, and
\* nothing writes to the counters or the error log after the copy.
C24_ScannedIsNonDirectoryRecords ==
    Returned =>
        /\ result.Progress.ScannedFiles = NonDirectoryRecords
        /\ result.Progress.BlockedFiles = BlockedRecords
        /\ Quiescent

\* C24, amended: ScannedFiles is the number of records made from work
\* items, which are the non-directory records and the records of symbolic
\* links to directories (IsDirectory true); BlockedFiles is the number of
\* blocked records; the copy holds the counters as they stand and nothing
\* is left that could write to them.
C24_FrozenCountsComplete ==
    Returned =>
        /\ result.Progress.ScannedFiles = WorkItemRecords
        /\ result.Progress.BlockedFiles = BlockedRecords
        /\ Counts(result.Progress) = Counts(progress)
        /\ IsPrefix(progress.Errors, result.Progress.Errors)
        /\ Quiescent

C24_Witness ==
    /\ Returned
    /\ result.Progress.ScannedFiles = 3
    /\ result.Progress.BlockedFiles = 1
    /\ NonDirectoryRecords = 3

\* C25: no work item with the directory flag set is ever queued, and no
\* worker ever runs a directory enumeration.
C25_OnlyFilesQueued ==
    /\ \A i \in 1..Len(enqLog) : ~enqLog[i].IsDir
    /\ \A p \in DOMAIN tasks : tasks[p].owner = 0
    /\ \A w \in DOMAIN workers : workers[w].pc # "scandir"

\* The queued files whose os.Stat fails, and the queued files received so
\* far whose os.Stat succeeds.
StatFailed == { i \in 1..Len(deqLog) : ~deqLog[i].IsDir /\ Stat(fs0, deqLog[i].Path) # NilErr }

StatPassed == { i \in 1..Len(deqLog) : ~deqLog[i].IsDir /\ Stat(fs0, deqLog[i].Path) = NilErr }

ResultsFor(p) == { i \in 1..Len(sentLog) : sentLog[i].FileInfo.Path = p }

MessagesFor(log, p) == { i \in 1..Len(log) : log[i].path = p }

\* C26: a queued file whose stat fails gives exactly one result, which
\* carries the error and a record with the path and name only; it is not
\* classified, it adds nothing to ScannedFiles, ScannedSize or BlockedFiles,
\* no record for it comes into Files, and the error log gets exactly one
\* message for it.
C26_StatFailureIsOneError ==
    /\ \A i \in StatFailed :
          LET p == deqLog[i].Path
          IN /\ Cardinality(ResultsFor(p)) + HeldFor(p) = 1
             /\ \A j \in ResultsFor(p) :
                    sentLog[j] = [FileInfo |-> FileInfo(p), Error |-> Stat(fs0, p)]
             /\ \A w \in DOMAIN workers :
                    (workers[w].pc # "idle" /\ workers[w].pc # "exited"
                       /\ workers[w].pc # "scandir" /\ workers[w].file.Path = p)
                    => workers[w].pc = "senderr"
             /\ \A j \in 1..Len(collector.files) : collector.files[j].Path # p
             /\ Cardinality(MessagesFor(progress.Errors, p)) <= 1
             /\ \A j \in MessagesFor(progress.Errors, p) :
                    progress.Errors[j] = ErrorString(Stat(fs0, p))
             /\ Returned =>
                    /\ Cardinality(MessagesFor(result.Progress.Errors, p)) = 1
                    /\ \A j \in 1..Len(result.Files) : result.Files[j].Path # p
    /\ progress.ScannedFiles <= Cardinality(StatPassed)
    /\ Returned =>
           /\ result.Progress.ScannedFiles = Cardinality(StatPassed)
           /\ result.Progress.ScannedSize =
                  SumSize({ [Path |-> deqLog[i].Path, Size |-> fs0[deqLog[i].Path].size] :
                                 i \in StatPassed })
           /\ result.Progress.BlockedFiles = BlockedRecords

C26_Witness ==
    /\ Returned
    /\ StatFailed # {}
    /\ result.Progress.ScannedFiles > 0
    /\ Len(result.Progress.Errors) = 1

\* A traversal task has a directory-read failure (line 244) or an entry-info
\* failure (line 256) to report.
ReportPending ==
    \E p \in DOMAIN tasks :
        \/ tasks[p].pc = "readdir" /\ ReadDirErr(fs, p) # NilErr
        \/ tasks[p].pc = "loop" /\ HasEntry(p) /\ InfoErr(fs, EntryPath(p)) # NilErr

\* C27 (under FairSpec): a traversal task that has a read failure to report
\* is never held up for ever, however many failures the scan meets: the
\* reports all go out and the tasks finish.
C27_FailureReportNeverBlocks == ReportPending ~> ~ReportPending

\* Scan has registered the root (line 137) and the root is a regular file.
FileRootRegistered == dirWg > 0 /\ Exists(fs, root) /\ ~StatIsDir(fs, root)

\* C28 (under FairSpec), for a root that is a regular file: the count that
\* Scan registered for the root is matched by a completion, so the counter
\* comes back to zero, the work queue is closed and Scan returns.
C28_RootCountMatched == FileRootRegistered ~> (dirWg = 0 /\ workClosed /\ Returned)

\* C29: in every state of a scan and in the result, processed never
\* exceeds discovered: ScannedFiles <= TotalFiles and ScannedSize <=
\* TotalSize.
C29_ProcessedAtMostDiscovered ==
    /\ progress.ScannedFiles <= progress.TotalFiles
    /\ progress.ScannedSize <= progress.TotalSize
    /\ result.Progress.ScannedFiles <= result.Progress.TotalFiles
    /\ result.Progress.ScannedSize <= result.Progress.TotalSize
====
